---- MODULE Spec2Model ----
(***************************************************************************)
(* E2EAuto: the session automaton of automation.js (EcommerceAutomation)   *)
(* driving a Puppeteer browser, with the Utils helper of utils.js.         *)
(*                                                                         *)
(* The program is one async flow of control; pc is its position.  The      *)
(* page, the browser and the human entering the OTP are the environment:   *)
(* every driver call's outcome is drawn with \E from the outcomes the      *)
(* call can have (resolves, resolves with nothing found, rejects).         *)
(***************************************************************************)
EXTENDS Integers, Sequences, FiniteSets, TLC

\* ------------------------------------------------------------------ bounds
\* Items already in the (server-side) cart when the run starts.
MaxInitCart == 1
\* Context-creation events not caused by the product click (popups, workers).
MaxStray == 1

\* Longest selector list given to a Utils helper.
MaxSelectors == 2
\* Largest options.retries given to Utils.clickElement (its default is 3).
MaxRetries == 3

\* Most radio groups in a customization dialog.
MaxGroups == 3
\* Most wizard pages reached through the continue control.
MaxPages == 1
\* Most clicks that reject during one call of handleCustomization().
MaxFaults == 1

\* --------------------------------------------------------------- constants
\* Site profiles: the two shipped in config, and one added by the user
\* ("generic": neither branch of the site-specific code applies to it).
Sites == {"lenskart", "swiggy", "generic"}

\* `config` is a plain object literal, so config[name] also finds what the
\* object inherits from Object.prototype: 'constructor', 'toString', ...
InheritedKeys == {"constructor"}

\* The first command-line argument: a profile, an inherited key, or a name
\* for which config[name] is undefined.
SiteArgs == Sites \cup InheritedKeys \cup {"unknown"}

\* The phases of run(), by the method that implements each.
Phases == {"init", "signin", "setLocation", "search", "addToCart", "finalize"}

\* this.authMode as the command line sets it: 'auto' unless the site is
\* lenskart and the second argument is signin or signup.
AuthModes == {"auto", "signin", "signup"}

\* handleCustomization(), swiggy: `for (let step = 0; step < 6 && !completed; step++)`.
StepBudget == 6

\* Radio inputs in one group of a customization dialog.
OptionCounts == {1, 2}

\* The bounds of the two OTP waits of signin(), in steps of 30 s:
\* waitForFunction(..., { timeout: 30000 }) and { timeout: 60000 }.
PhaseATimeout == 1
PhaseBTimeout == 2

\* The facts of the document that the Phase B predicate reads:
\*   signInForm      #sign-in-form is in the document
\*   header          #header-wrapper or header#header is in the document
\*   userButton      a button labelled 'User account menu' is in the document
\*   signInNode      some a/button/div/span has text matching \bsign\s*in\b
\*   signedInHeader  the header text matches account|profile|logout|sign out|my orders
Docs == [signInForm : BOOLEAN, header : BOOLEAN, userButton : BOOLEAN,
         signInNode : BOOLEAN, signedInHeader : BOOLEAN]

\* The document before signin() polls it (and once signin() has returned).
NoDoc == [signInForm |-> FALSE, header |-> FALSE, userButton |-> FALSE,
          signInNode |-> TRUE, signedInHeader |-> FALSE]

VARIABLES
    siteName,           \* this.siteName
    requiresLocation,   \* this.config.requiresLocation
    hasCustomization,   \* this.config.hasCustomization
    pc,                 \* position of the single flow of control
    browser,            \* this.browser: "null" | "open" | "closed"
    page,               \* this.page: "null" or a context
    utils,              \* this.utils: "null", or the page the Utils object holds
    phases,             \* the phases entered so far, in order
    ret,                \* what each phase method returned: "none" until it returns
    error,              \* the error run() is propagating: "none" when there is none
    outcome,            \* how run() settled: "running" | "resolved" | "rejected"
    captures,           \* Utils.screenshot calls made: <<label, context captured, capture succeeded>>
    otp,                \* the OTP wait of signin(): "none" | "detected" | "timeout"
    typed,              \* search(): whether the search term was submitted
    listener,           \* the once('targetcreated') registration: "none" | "pending" | "fired"
    newPagePromise,     \* "unresolved", or the value it resolved with ("null" or a context)
    productClick,       \* lenskart product click: "none" | "failed" | "issued"
    spawn,              \* whether the browser still owes the click's context-creation event
    strayLeft,          \* unrelated context-creation events the environment may still raise
    created,            \* the kinds of target whose 'targetcreated' event has been emitted
    firedBy,            \* the kind of target the listener fired for: "none" until it fires
    handoff,            \* this.page has been reassigned to the awaited context
    addressed,          \* contexts addressed by driver operations since the handoff
    cart,               \* swiggy: the cart's real item count
    preCount,           \* swiggy: preCount read by addToCart()
    postCount,          \* swiggy: postCount read by addToCart() (-1 before it is read)
    addedOk,            \* swiggy: addedOk of the first verification
    verifyClicks,       \* swiggy: add clicks issued by the verification steps
    checkout,           \* lenskart: "none" | "clicked" | "failed" (Proceed To Checkout)
    openCtx,            \* the browsing contexts (pages) open in the browser
    authMode,           \* this.authMode: "auto" | "signin" | "signup"
    didOpenSignupForm,  \* signin(), lenskart: local didOpenSignupForm
    signInClickable,    \* signin(), lenskart: local signInClickable
    alreadyRegistered,  \* signin(), lenskart: existsMsg was true after a create-account submit
    signupSubmits,      \* signin(), lenskart: create-account submit clicks that landed
    signupId,           \* signin(), lenskart: credential typed into the signup form's mobile field
    pivots,             \* signin(), lenskart: signup-to-signin pivots attempted
    pivotSwitched,      \* signin(), lenskart: signInClicked of the pivot
    signinId,           \* signin(): credential typed into the sign-in form's identifier field
    resubmitted,        \* signin(), lenskart: the Sign In button was clicked after the pivot
    challenge,          \* the OTP challenge on the page: "none" | "shown" | "resolved"
    doc,                \* what the document shows to the Phase B predicate
    clock,              \* time spent in the current waitForFunction, in TimeUnit steps
    seenA,              \* signin(): the Phase A predicate became true
    helper,             \* Utils call in progress: "none" or the method's name
    nSelectors,         \* Utils call: length of the selector list
    retries,            \* Utils.clickElement: options.retries
    pressEnter,         \* Utils.typeText: options.pressEnter
    attempt,            \* Utils.clickElement: loop variable attempt
    idx,                \* Utils call: position of the next selector in the list
    probes,             \* Utils call: the probes made so far, <<pass, selector, outcome>>
    result,             \* Utils call: "pending" | "selector" | "true" | "false" | "threw"
    used,               \* Utils call: position of the selector that was used (0: none)
    sink,               \* page.screenshot / the screenshots directory: "up" | "down" (every capture throws)
    argsOk,             \* main: process.argv holds at least two arguments
    exitCode,           \* main: the code given to process.exit (-1: has not exited)
    customized,         \* addToCart(): this call has clicked a lens type / lens package / wizard control
    wiz                 \* handleCustomization(): its locals and the dialog it reads (see NoWizard)

vars == <<siteName, requiresLocation, hasCustomization, pc, browser, page, utils,
          phases, ret, error, outcome, captures, otp, typed, listener,
          newPagePromise, productClick, spawn, strayLeft, created, firedBy,
          handoff, addressed, cart, preCount, postCount, addedOk, verifyClicks, checkout,
          openCtx, authMode, didOpenSignupForm, signInClickable, alreadyRegistered,
          signupSubmits, signupId, pivots, pivotSwitched, signinId, resubmitted,
          challenge, doc, clock, seenA,
          helper, nSelectors, retries, pressEnter, attempt, idx, probes, result, used,
          sink, argsOk, exitCode, customized,
          wiz>>

\* Groups of variables, for UNCHANGED.
cfgVars == <<siteName, requiresLocation, hasCustomization, authMode, sink, argsOk>>
ctxVars == <<listener, newPagePromise, productClick, spawn, created, firedBy, handoff>>
cartVars == <<cart, preCount, postCount, addedOk, verifyClicks>>
formVars == <<didOpenSignupForm, signInClickable, alreadyRegistered, signupSubmits,
              signupId, pivots, pivotSwitched, signinId, resubmitted>>
otpVars == <<challenge, doc, clock, seenA>>
signinVars == <<formVars, otpVars>>
helperVars == <<helper, nSelectors, retries, pressEnter, attempt, idx, probes, result, used>>

\* handleCustomization() and the dialog it works on.  The locals:
\*   step, completed   the loop variable and the flag of the swiggy loop
\*   rungs             the ladder steps tried in the current (or, between
\*                     iterations, the last) iteration, <<rung, outcome>>
\*   finalAttempt      the clickElement after the loop: "none" | "clicked" | "missed"
\*   logged            what was logged last: "none" | "completed" | "failed"
\*   returned          the return value: "none" | "true" | "false"
\* The dialog:
\*   sel               its radio groups in document order: the option checked
\*                     in each (0: none)
\*   nOptions          radio inputs per group
\*   submitRule        when the final add control is in the dialog:
\*                     "always" | "whenComplete" (every group has a checked
\*                     option) | "never"
\*   continueLeft      wizard pages still ahead; the continue control is
\*                     present while this is positive
\*   otherBtn          some other button's text matches /continue|add/i
\*   need, pages       when the dialog opened: the groups with no option
\*                     checked, and continueLeft
\*   picks, faults     radios clicked so far; clicks that rejected so far
\* NoWizard: handleCustomization() is not running and no dialog is open.
NoWizard ==
    [step |-> 0, completed |-> FALSE, rungs |-> << >>, finalAttempt |-> "none",
     logged |-> "none", returned |-> "none",
     sel |-> << >>, nOptions |-> 1, submitRule |-> "never", continueLeft |-> 0,
     otherBtn |-> FALSE, need |-> 0, pages |-> 0, picks |-> 0, faults |-> 0]

\* ------------------------------------------------------------ constructor
\* The process before main runs.  What new EcommerceAutomation(site, authMode)
\* will set is already in place: this.siteName, this.config (of an inherited
\* key: a function, whose requiresLocation and hasCustomization are
\* undefined), this.authMode; browser, page and utils are null.
Started ==
    /\ siteName \in SiteArgs
    /\ requiresLocation \in (IF siteName \in Sites THEN BOOLEAN ELSE {FALSE})
    /\ hasCustomization \in (IF siteName \in Sites THEN BOOLEAN ELSE {FALSE})
    /\ pc = "main"
    /\ browser = "null"
    /\ page = "null"
    /\ utils = "null"
    /\ phases = << >>
    /\ ret = [p \in Phases |-> "none"]
    /\ error = "none"
    /\ outcome = "running"
    /\ captures = {}
    /\ otp = "none"
    /\ typed = FALSE
    /\ listener = "none"
    /\ newPagePromise = "unresolved"
    /\ productClick = "none"
    /\ spawn = FALSE
    /\ strayLeft = MaxStray
    /\ created = {}
    /\ firedBy = "none"
    /\ handoff = FALSE
    /\ addressed = {}
    /\ cart \in 0..MaxInitCart
    /\ preCount = 0
    /\ postCount = -1
    /\ addedOk = FALSE
    /\ verifyClicks = 0
    /\ checkout = "none"
    /\ openCtx = {}
    /\ authMode \in (IF siteName = "lenskart" THEN AuthModes ELSE {"auto"})
    /\ didOpenSignupForm = FALSE
    /\ signInClickable = FALSE
    /\ alreadyRegistered = FALSE
    /\ signupSubmits = 0
    /\ signupId = "none"
    /\ pivots = 0
    /\ pivotSwitched = FALSE
    /\ signinId = "none"
    /\ resubmitted = FALSE
    /\ challenge = "none"
    /\ doc = NoDoc
    /\ clock = 0
    /\ seenA = FALSE
    /\ helper = "none"
    /\ nSelectors = 0
    /\ retries = 0
    /\ pressEnter = FALSE
    /\ attempt = 0
    /\ idx = 0
    /\ probes = << >>
    /\ result = "pending"
    /\ used = 0
    /\ argsOk \in (IF siteName = "unknown" /\ cart = 0 THEN BOOLEAN ELSE {TRUE})
    /\ exitCode = -1
    /\ customized = FALSE
    /\ wiz = NoWizard

\* The process as node starts it, with a capture sink that works.
Init == Started /\ sink = "up"

\* The same, with a sink on which every capture throws (page.screenshot
\* rejects, or the screenshots directory cannot be written).
SinkInit == Started /\ sink = "down"

\* ------------------------------------------------------------------ Utils
\* Utils.screenshot(name): captures this.page OF THE UTILS OBJECT (the page it
\* was constructed with); a failing capture is caught and logged.
Shot(label) == <<label, utils, sink = "up">>
Screenshot(label) == captures \cup {Shot(label)}

\* The contexts a step addresses: ops through this.page go to `page`, ops
\* through the Utils helper go to the page the helper holds.  Recorded from
\* the handoff on.
Address(viaPage, viaUtils) ==
    IF handoff
    THEN addressed \cup (IF viaPage /\ page # "null" THEN {page} ELSE {})
                   \cup (IF viaUtils /\ utils # "null" THEN {utils} ELSE {})
    ELSE addressed

\* A phase method is entered / returns.
Enter(p) == phases' = Append(phases, p)
Return(p, v) == ret' = [ret EXCEPT ![p] = v]

\* ------------------------------------------------------------------- main
\* The main IIFE up to the call of run(): fewer than two arguments: usage,
\* process.exit(1).  The constructor throws when config[siteName] is falsy,
\* and the catch exits with 1.  Otherwise run() is called.
Main ==
    /\ pc = "main"
    /\ IF ~argsOk \/ siteName \notin (Sites \cup InheritedKeys)
       THEN exitCode' = 1 /\ pc' = "exited"
       ELSE pc' = "init_launch" /\ UNCHANGED exitCode
    /\ UNCHANGED <<cfgVars, signinVars, helperVars, wiz, customized, browser, page, utils,
                   phases, ret, error, outcome, captures, otp, typed, ctxVars, strayLeft,
                   openCtx, addressed, cartVars, checkout>>

\* The main IIFE once run() has settled: process.exit(0) after the await,
\* process.exit(1) in the catch.  The process and all its objects are gone;
\* what remains is the exit code, how run() settled, and the browser (a
\* separate process), whose contexts go with the connection.
MainExit ==
    /\ pc = "done"
    /\ exitCode' = IF outcome = "resolved" THEN 0 ELSE 1
    /\ pc' = "exited"
    /\ page' = "null" /\ utils' = "null"
    /\ phases' = << >>
    /\ ret' = [p \in Phases |-> "none"]
    /\ error' = "none"
    /\ captures' = {}
    /\ otp' = "none" /\ typed' = FALSE
    /\ listener' = "none" /\ newPagePromise' = "unresolved" /\ productClick' = "none"
    /\ spawn' = FALSE /\ created' = {} /\ firedBy' = "none" /\ handoff' = FALSE
    /\ strayLeft' = 0
    /\ openCtx' = {} /\ addressed' = {}
    /\ preCount' = 0 /\ postCount' = -1 /\ addedOk' = FALSE /\ verifyClicks' = 0
    /\ checkout' = "none"
    /\ UNCHANGED <<cfgVars, signinVars, helperVars, wiz, customized, browser, outcome, cart>>

\* ------------------------------------------------------------------- init
\* init(), first await: puppeteer.launch().  A rejection propagates to run().
InitLaunch ==
    /\ pc = "init_launch"
    /\ Enter("init")
    /\ \E ok \in BOOLEAN :
          IF ok
          THEN /\ browser' = "open"
               /\ pc' = "init_newPage"
               /\ UNCHANGED <<ret, error>>
          ELSE /\ Return("init", "threw")
               /\ error' = "LaunchError"
               /\ pc' = "run_catch"
               /\ UNCHANGED browser
    /\ UNCHANGED <<cfgVars, signinVars, helperVars, wiz, exitCode, customized, page, utils, outcome, captures, otp, typed,
                   ctxVars, strayLeft, openCtx, addressed, cartVars, checkout>>

\* init(): this.page = await this.browser.newPage(); this.utils = new Utils(this.page).
InitNewPage ==
    /\ pc = "init_newPage"
    /\ \E ok \in BOOLEAN :
          IF ok
          THEN /\ page' = "main"
               /\ utils' = "main"
               /\ openCtx' = openCtx \cup {"main"}
               /\ pc' = "init_nav"
               /\ UNCHANGED <<ret, error>>
          ELSE /\ Return("init", "threw")
               /\ error' = "NewPageError"
               /\ pc' = "run_catch"
               /\ UNCHANGED <<page, utils, openCtx>>
    /\ UNCHANGED <<cfgVars, signinVars, helperVars, wiz, exitCode, customized, browser, phases, outcome, captures, otp, typed,
                   ctxVars, strayLeft, addressed, cartVars, checkout>>

\* init(): setUserAgent, goto(baseUrl), wait(config.timing.pageLoad).  With
\* the config of an inherited key baseUrl and timing are undefined:
\* goto(undefined) rejects.  Then init() calls utils.screenshot('01_homepage').
InitNavigate ==
    /\ pc = "init_nav"
    /\ \E ok \in (IF siteName \in Sites THEN BOOLEAN ELSE {FALSE}) :
          IF ok
          THEN /\ pc' = "init_capture"
               /\ UNCHANGED <<ret, error>>
          ELSE /\ Return("init", "threw")
               /\ error' = "NavigationError"
               /\ pc' = "run_catch"
    /\ UNCHANGED <<cfgVars, signinVars, helperVars, wiz, exitCode, customized, browser, page, utils, phases, outcome, captures, otp, typed,
                   ctxVars, strayLeft, openCtx, addressed, cartVars, checkout>>

\* InitCapture, were a failed capture to propagate out of Utils.screenshot.
InitCapture_Throws ==
    /\ pc = "init_capture"
    /\ captures' = Screenshot("01_homepage")
    /\ IF sink = "up"
       THEN Return("init", "true") /\ pc' = "si_open" /\ UNCHANGED error
       ELSE /\ Return("init", "threw")
            /\ error' = "CaptureError"
            /\ pc' = "run_catch"
    /\ UNCHANGED <<cfgVars, signinVars, helperVars, wiz, exitCode, customized, browser, page, utils, phases, outcome, otp, typed,
                   ctxVars, strayLeft, openCtx, addressed, cartVars, checkout>>

\* init(): `await this.utils.screenshot('01_homepage')`, in which
\* `await this.page.screenshot(...)`: init() resumes, and returns, when the
\* capture has settled.  While pc = "init_capture" the capture is in flight.
InitCapture ==
    /\ pc = "init_capture"
    /\ captures' = Screenshot("01_homepage")
    /\ Return("init", "true")
    /\ pc' = "si_open"
    /\ UNCHANGED <<cfgVars, signinVars, helperVars, wiz, exitCode, customized, browser, page, utils, phases, error, outcome, otp, typed,
                   ctxVars, strayLeft, openCtx, addressed, cartVars, checkout>>

\* ----------------------------------------------------------------- signin
\* signin(): close modals (not on lenskart), click the sign-in button.  Every
\* call here is a non-throwing Utils helper.  Button not found: return false.
SigninOpen ==
    /\ pc = "si_open"
    /\ Enter("signin")
    /\ \E clicked \in BOOLEAN :
          IF clicked
          THEN /\ captures' = Screenshot("03_auth_modal_login")
               /\ pc' = "si_form"
               /\ UNCHANGED ret
          ELSE /\ Return("signin", "false")
               /\ pc' = "run_after_signin"
               /\ UNCHANGED captures
    /\ UNCHANGED <<cfgVars, signinVars, helperVars, wiz, exitCode, customized, browser, page, utils, error, outcome, otp, typed,
                   ctxVars, strayLeft, openCtx, addressed, cartVars, checkout>>

\* What is left unchanged by every step of signin() after the modal opened.
signinFrame == <<cfgVars, helperVars, wiz, exitCode, customized, browser, page, utils, phases, ret, error,
                 outcome, typed, ctxVars, strayLeft, openCtx, addressed,
                 cartVars, checkout>>

\* signin(): the site-specific form.  lenskart: the block at 244-458.
\* swiggy: `signupLinkClicked` is the constant false, so only the login
\* branch runs: find the phone input, type config.signupData.phone, click
\* LOGIN; all inside a try.  Any other site: straight to the OTP wait.
SigninForm ==
    /\ pc = "si_form"
    /\ CASE siteName = "lenskart" -> pc' = "lkf_dialog" /\ UNCHANGED signinId
         [] siteName = "swiggy" ->
               /\ \E r \in {"noInput", "typed", "fault"} :
                     signinId' = IF r = "typed" THEN "phone" ELSE signinId
               /\ pc' = "si_wait"
         [] OTHER -> pc' = "si_wait" /\ UNCHANGED signinId
    /\ UNCHANGED <<signinFrame, captures, otp, otpVars, didOpenSignupForm,
                   signInClickable, alreadyRegistered, signupSubmits, signupId,
                   pivots, pivotSwitched, resubmitted>>

\* signin(), lenskart: wait for the dialog (a timeout goes to the branch's
\* catch, i.e. to the OTP wait); with authMode 'signup' click Create an
\* Account and take the form as open if input[name="firstName"] appears.
LkFormDialog ==
    /\ pc = "lkf_dialog"
    /\ \E dialog \in BOOLEAN :
          IF ~dialog
          THEN pc' = "si_wait" /\ UNCHANGED didOpenSignupForm
          ELSE /\ pc' = "lkf_signin"
               /\ IF authMode = "signup"
                  THEN didOpenSignupForm' \in BOOLEAN
                  ELSE UNCHANGED didOpenSignupForm
    /\ UNCHANGED <<signinFrame, captures, otp, otpVars, signInClickable,
                   alreadyRegistered, signupSubmits, signupId, pivots,
                   pivotSwitched, signinId, resubmitted>>

\* signin(), lenskart, authMode other than 'signup': type
\* config.signupData.phone into the first sign-in input found (a rejected
\* click on it goes to the branch's catch; a rejected type is swallowed),
\* then page.click('#remove-button') inside a try: signInClickable.
LkFormSignIn ==
    /\ pc = "lkf_signin"
    /\ IF authMode = "signup"
       THEN pc' = "lkf_auto" /\ UNCHANGED <<signinId, signInClickable>>
       ELSE \E r \in {"noInput", "typed", "typeFailed", "fault"} :
               IF r = "fault"
               THEN pc' = "si_wait" /\ UNCHANGED <<signinId, signInClickable>>
               ELSE /\ signinId' = IF r = "typed" THEN "phone" ELSE signinId
                    /\ signInClickable' \in BOOLEAN
                    /\ pc' = "lkf_auto"
    /\ UNCHANGED <<signinFrame, captures, otp, otpVars, didOpenSignupForm,
                   alreadyRegistered, signupSubmits, signupId, pivots,
                   pivotSwitched, resubmitted>>

\* Fill the account-creation form (mobile := config.signupData.phone), click
\* its submit control, then read existsMsg ('already registered' in the
\* dialog).  Written twice in signin(): 321-347 and 391-417.  r is what the
\* page does: the submit click rejects, the evaluate rejects, the message is
\* there, or it is not.
SubmitSignup(r) ==
    /\ captures' = Screenshot("03_signup_form_lenskart")
    /\ signupId' = "phone"
    /\ signupSubmits' = signupSubmits + (IF r = "submitFault" THEN 0 ELSE 1)
    /\ alreadyRegistered' = (alreadyRegistered \/ r = "exists")

\* Mutant: the auto block is not gated on authMode.
LkFormAuto_UngatedSignup ==
    /\ pc = "lkf_auto"
    /\ IF ~didOpenSignupForm /\ ~signInClickable
       THEN \E r \in {"notOpened", "submitFault", "evalFault", "exists", "created"} :
               IF r = "notOpened"
               THEN /\ pc' = "lkf_explicit"
                    /\ UNCHANGED <<captures, signupId, signupSubmits,
                                   alreadyRegistered, didOpenSignupForm>>
               ELSE /\ SubmitSignup(r)
                    /\ didOpenSignupForm' = (r = "created")
                    /\ pc' = CASE r = "exists" -> "lkf_pivot_auto"
                               [] r = "created" -> "lkf_explicit"
                               [] OTHER -> "si_wait"
       ELSE /\ pc' = "lkf_explicit"
            /\ UNCHANGED <<captures, signupId, signupSubmits, alreadyRegistered,
                           didOpenSignupForm>>
    /\ UNCHANGED <<signinFrame, otp, otpVars, signInClickable, pivots,
                   pivotSwitched, signinId, resubmitted>>

\* Mutant: the auto block marks the signup form as open after its pivot too.
LkFormAuto_PivotKeepsSignup ==
    /\ pc = "lkf_auto"
    /\ IF ~didOpenSignupForm /\ ~signInClickable /\ authMode # "signin"
       THEN \E r \in {"notOpened", "submitFault", "evalFault", "exists", "created"} :
               IF r = "notOpened"
               THEN /\ pc' = "lkf_explicit"
                    /\ UNCHANGED <<captures, signupId, signupSubmits,
                                   alreadyRegistered, didOpenSignupForm>>
               ELSE /\ SubmitSignup(r)
                    /\ didOpenSignupForm' = (r \in {"created", "exists"})
                    /\ pc' = CASE r = "exists" -> "lkf_pivot_auto"
                               [] r = "created" -> "lkf_explicit"
                               [] OTHER -> "si_wait"
       ELSE /\ pc' = "lkf_explicit"
            /\ UNCHANGED <<captures, signupId, signupSubmits, alreadyRegistered,
                           didOpenSignupForm>>
    /\ UNCHANGED <<signinFrame, otp, otpVars, signInClickable, pivots,
                   pivotSwitched, signinId, resubmitted>>

\* signin(), lenskart: `if (!didOpenSignupForm && !signInClickable &&
\* this.authMode !== 'signin')`: open Create an Account; when it opens, fill
\* and submit; existsMsg -> the pivot (didOpenSignupForm stays false);
\* otherwise didOpenSignupForm = true.  A rejected submit click or evaluate
\* goes to the branch's catch.
LkFormAuto ==
    /\ pc = "lkf_auto"
    /\ IF ~didOpenSignupForm /\ ~signInClickable /\ authMode # "signin"
       THEN \E r \in {"notOpened", "submitFault", "evalFault", "exists", "created"} :
               IF r = "notOpened"
               THEN /\ pc' = "lkf_explicit"
                    /\ UNCHANGED <<captures, signupId, signupSubmits,
                                   alreadyRegistered, didOpenSignupForm>>
               ELSE /\ SubmitSignup(r)
                    /\ didOpenSignupForm' = (r = "created")
                    /\ pc' = CASE r = "exists" -> "lkf_pivot_auto"
                               [] r = "created" -> "lkf_explicit"
                               [] OTHER -> "si_wait"
       ELSE /\ pc' = "lkf_explicit"
            /\ UNCHANGED <<captures, signupId, signupSubmits, alreadyRegistered,
                           didOpenSignupForm>>
    /\ UNCHANGED <<signinFrame, otp, otpVars, signInClickable, pivots,
                   pivotSwitched, signinId, resubmitted>>

\* signin(), lenskart: `if (didOpenSignupForm)`: fill and submit the
\* account-creation form inside a try whose catch is empty; existsMsg -> the
\* pivot; then the OTP wait.
LkFormExplicit ==
    /\ pc = "lkf_explicit"
    /\ IF didOpenSignupForm
       THEN \E r \in {"submitFault", "evalFault", "exists", "created"} :
               /\ SubmitSignup(r)
               /\ pc' = IF r = "exists" THEN "lkf_pivot_explicit" ELSE "si_wait"
       ELSE /\ pc' = "si_wait"
            /\ UNCHANGED <<captures, signupId, signupSubmits, alreadyRegistered>>
    /\ UNCHANGED <<signinFrame, otp, otpVars, didOpenSignupForm, signInClickable,
                   pivots, pivotSwitched, signinId, resubmitted>>

\* The signup-to-signin pivot, written twice (349-380 and 419-451): log,
\* screenshot('03_already_registered'), clickElement on the Sign In link;
\* when it was clicked, wait for input[name="emailOrPhone"] and type
\* config.signupData.phone (a try), then click the Sign In button if the
\* XPath finds it (a try).  `selectorsValid`: whether the selector list given
\* to clickElement holds a selector the driver accepts.
Pivot(selectorsValid) ==
    /\ pivots' = pivots + 1
    /\ captures' = Screenshot("03_already_registered")
    /\ \E clicked \in (IF selectorsValid THEN BOOLEAN ELSE {FALSE}) :
          /\ pivotSwitched' = clicked
          /\ IF clicked
             THEN /\ \E filled \in BOOLEAN :
                        signinId' = IF filled THEN "phone" ELSE signinId
                  /\ resubmitted' \in BOOLEAN
             ELSE UNCHANGED <<signinId, resubmitted>>

\* signin(), lenskart: the pivot of the auto block.  Its first selector,
\* [role="button"][aria-label="Sign In"], is valid CSS.  Control then
\* reaches `if (didOpenSignupForm)`.
LkPivotAuto ==
    /\ pc = "lkf_pivot_auto"
    /\ Pivot(TRUE)
    /\ pc' = "lkf_explicit"
    /\ UNCHANGED <<signinFrame, otp, otpVars, didOpenSignupForm, signInClickable,
                   alreadyRegistered, signupSubmits, signupId>>

\* signin(), lenskart: the pivot of the explicit-signup block.  Its selector
\* list is '[role\="button\'][aria-label\="Sign In\']', i.e. the string
\* [role="button'][aria-label="Sign In'] with mismatched quotes, and
\* button:has-text("Sign In"), which is not a CSS pseudo-class: the driver
\* rejects both, clickElement catches that and returns false.
LkPivotExplicit ==
    /\ pc = "lkf_pivot_explicit"
    /\ Pivot(FALSE)
    /\ pc' = "si_wait"
    /\ UNCHANGED <<signinFrame, otp, otpVars, didOpenSignupForm, signInClickable,
                   alreadyRegistered, signupSubmits, signupId>>

\* ------------------------------------------------------ signin: OTP wait
\* Mutant: the common tail returns without waiting for the OTP.
SigninWait_NoOtpWait ==
    /\ pc = "si_wait"
    /\ pc' = "si_return"
    /\ UNCHANGED <<signinFrame, captures, otp, otpVars, formVars>>

\* signin(): the common tail begins (946-958): log the 'PAUSED FOR MANUAL
\* OTP ENTRY' banner.  The locals of the site block (declared inside its
\* try) are out of scope here.
SigninWait ==
    /\ pc = "si_wait"
    /\ pc' = "si_phaseA"
    /\ didOpenSignupForm' = FALSE
    /\ signInClickable' = FALSE
    /\ alreadyRegistered' = FALSE
    /\ signupSubmits' = 0
    /\ signupId' = "none"
    /\ pivots' = 0
    /\ pivotSwitched' = FALSE
    /\ signinId' = "none"
    /\ resubmitted' = FALSE
    /\ UNCHANGED <<signinFrame, captures, otp, otpVars>>

\* The OTP challenge as both predicates recognise it: a dialog whose text
\* says 'verify otp' or that holds single-character inputs.
OtpVisible == challenge = "shown"

\* Phase A predicate (962-970): hasText || hasOtpInputs.
PhaseAPredicate == OtpVisible

\* Phase B predicate (975-1001): `!signInForm && (header || userButton)`, else
\* `!authVisible && (!signInNode || signedInHeader)`.
PhaseBPredicate ==
    \/ ~doc.signInForm /\ (doc.header \/ doc.userButton)
    \/ ~OtpVisible /\ (~doc.signInNode \/ doc.signedInHeader)

\* The page re-renders while signin() is polling it, one mutation at a time:
\* the challenge appears, the human enters the code and it goes away, or one
\* of the facts of the document changes.
PageChanges ==
    /\ pc \in {"si_phaseA", "si_phaseB"}
    /\ \/ /\ challenge = "none" /\ challenge' = "shown" /\ UNCHANGED doc
       \/ /\ challenge = "shown" /\ challenge' = "resolved" /\ UNCHANGED doc
       \/ /\ \E f \in DOMAIN doc : doc' = [doc EXCEPT ![f] = ~doc[f]]
          /\ UNCHANGED challenge
    /\ UNCHANGED <<signinFrame, captures, otp, formVars, clock, seenA, pc>>

\* Time passes in a waitForFunction.  The predicate is polled on every frame,
\* so a step of 30 s does not pass while it is true.
Tick ==
    /\ \/ pc = "si_phaseA" /\ clock < PhaseATimeout /\ ~PhaseAPredicate
       \/ pc = "si_phaseB" /\ clock < PhaseBTimeout /\ ~PhaseBPredicate
    /\ clock' = clock + 1
    /\ UNCHANGED <<signinFrame, captures, otp, formVars, challenge, doc, seenA, pc>>

\* Mutant: Phase B is not entered before the challenge was seen.
SigninPhaseA_Strict ==
    /\ pc = "si_phaseA"
    /\ PhaseAPredicate
    /\ seenA' = TRUE
    /\ clock' = 0
    /\ pc' = "si_phaseB"
    /\ UNCHANGED <<signinFrame, captures, otp, formVars, challenge, doc>>

\* signin(), Phase A: try { await waitForFunction(A, { timeout: 30000 }) }
\* catch {}: goes on when the predicate became true, and also when the 30 s
\* ran out.
SigninPhaseA ==
    /\ pc = "si_phaseA"
    /\ IF PhaseAPredicate
       THEN seenA' = TRUE
       ELSE clock = PhaseATimeout /\ seenA' = FALSE
    /\ clock' = 0
    /\ pc' = "si_phaseB"
    /\ UNCHANGED <<signinFrame, captures, otp, formVars, challenge, doc>>

\* Mutant: the OTP wait is skipped when Phase A saw no challenge.
SigninPhaseB_SkippedUnseen ==
    /\ pc = "si_phaseB"
    /\ IF ~seenA
       THEN UNCHANGED otp
       ELSE IF PhaseBPredicate
            THEN otp' = "detected"
            ELSE clock = PhaseBTimeout /\ otp' = "timeout"
    /\ pc' = "si_return"
    /\ UNCHANGED <<signinFrame, captures, formVars, otpVars>>

\* signin(), Phase B: waitForFunction(B, { timeout: 60000 }); resolved: log
\* 'Sign-in detected'; the 60 s ran out: log 'OTP wait timeout - continuing
\* anyway'.
SigninPhaseB ==
    /\ pc = "si_phaseB"
    /\ IF PhaseBPredicate
       THEN otp' = "detected"
       ELSE clock = PhaseBTimeout /\ otp' = "timeout"
    /\ pc' = "si_return"
    /\ UNCHANGED <<signinFrame, captures, formVars, otpVars>>

\* signin(): `return true` (line 1008).  Nothing reads the sign-in document
\* or the wait's clock again.
SigninReturn ==
    /\ pc = "si_return"
    /\ Return("signin", "true")
    /\ pc' = "run_after_signin"
    /\ challenge' = "none"
    /\ doc' = NoDoc
    /\ clock' = 0
    /\ seenA' = FALSE
    /\ UNCHANGED <<cfgVars, formVars, helperVars, wiz, exitCode, customized,
                   browser, page, utils, phases,
                   error, outcome, captures, otp, typed, ctxVars, strayLeft,
                   openCtx, addressed, cartVars, checkout>>

\* Mutant: setLocation() is called whatever config.requiresLocation says.
RunAfterSignin_AlwaysLocation ==
    /\ pc = "run_after_signin"
    /\ pc' = "loc"
    /\ UNCHANGED <<cfgVars, signinVars, helperVars, wiz, exitCode, customized, browser, page, utils, phases, ret, error, outcome,
                   captures, otp, typed, ctxVars, strayLeft, openCtx, addressed,
                   cartVars, checkout>>

\* Mutant: a signin() that returned false aborts the run.
RunAfterSignin_SigninCritical ==
    /\ pc = "run_after_signin"
    /\ IF ret["signin"] = "false"
       THEN pc' = "run_catch" /\ error' = "SigninFailed"
       ELSE pc' = (IF requiresLocation THEN "loc" ELSE "search") /\ UNCHANGED error
    /\ UNCHANGED <<cfgVars, signinVars, helperVars, wiz, exitCode, customized, browser, page, utils, phases, ret, outcome,
                   captures, otp, typed, ctxVars, strayLeft, openCtx, addressed,
                   cartVars, checkout>>

\* run(): `await this.signin()` (result dropped), then
\* `if (this.config.requiresLocation) await this.setLocation()`.
RunAfterSignin ==
    /\ pc = "run_after_signin"
    /\ pc' = IF requiresLocation THEN "loc" ELSE "search"
    /\ UNCHANGED <<cfgVars, signinVars, helperVars, wiz, exitCode, customized, browser, page, utils, phases, ret, error, outcome,
                   captures, otp, typed, ctxVars, strayLeft, openCtx, addressed,
                   cartVars, checkout>>

\* ------------------------------------------------------------ setLocation
\* setLocation(): true when the location was typed and chosen; false when the
\* input is not found; a driver fault (before or after the dropdown capture)
\* is caught, captured as error_location, and returns false.
SetLocation ==
    /\ pc = "loc"
    /\ Enter("setLocation")
    /\ \E r \in {"ok", "noInput", "faultEarly", "faultLate"} :
          /\ captures' =
                CASE r = "ok" -> captures \cup {Shot("02_location_dropdown"),
                                                Shot("02_location_set")}
                  [] r = "noInput" -> captures
                  [] r = "faultEarly" -> Screenshot("error_location")
                  [] r = "faultLate" -> captures \cup {Shot("02_location_dropdown"),
                                                       Shot("error_location")}
          /\ Return("setLocation", IF r = "ok" THEN "true" ELSE "false")
    /\ pc' = "search"
    /\ UNCHANGED <<cfgVars, signinVars, helperVars, wiz, exitCode, customized, browser, page, utils, error, outcome, otp, typed,
                   ctxVars, strayLeft, openCtx, addressed, cartVars, checkout>>

\* ----------------------------------------------------------------- search
\* search(term).  swiggy and generic return false when the term could not be
\* typed; the lenskart branch only logs a warning and falls through to the
\* common tail, which captures 04_search_results and returns true.
Search ==
    /\ pc = "search"
    /\ Enter("search")
    /\ \E t \in BOOLEAN :
          /\ typed' = t
          /\ IF siteName = "lenskart" \/ t
             THEN /\ captures' = Screenshot("04_search_results")
                  /\ Return("search", "true")
             ELSE /\ Return("search", "false")
                  /\ UNCHANGED captures
    /\ pc' = "run_chk_search"
    /\ UNCHANGED <<cfgVars, signinVars, helperVars, wiz, exitCode, customized, browser, page, utils, error, outcome, otp,
                   ctxVars, strayLeft, openCtx, addressed, cartVars, checkout>>

\* Mutant: the result of search() is not checked.
RunCheckSearch_Unchecked ==
    /\ pc = "run_chk_search"
    /\ pc' = "atc_enter"
    /\ UNCHANGED <<cfgVars, signinVars, helperVars, wiz, exitCode, customized, browser, page, utils, phases, ret, error, outcome,
                   captures, otp, typed, ctxVars, strayLeft, openCtx, addressed,
                   cartVars, checkout>>

\* run(): `if (!searchSuccess) throw new Error('Search failed')`.
RunCheckSearch ==
    /\ pc = "run_chk_search"
    /\ IF ret["search"] = "true"
       THEN pc' = "atc_enter" /\ UNCHANGED error
       ELSE pc' = "run_catch" /\ error' = "SearchFailed"
    /\ UNCHANGED <<cfgVars, signinVars, helperVars, wiz, exitCode, customized, browser, page, utils, phases, ret, outcome,
                   captures, otp, typed, ctxVars, strayLeft, openCtx, addressed,
                   cartVars, checkout>>

\* -------------------------------------------------------------- addToCart
\* addToCart(): log, then branch on the site; a site that is neither lenskart
\* nor swiggy falls through to `return false`.
AddToCartEnter ==
    /\ pc = "atc_enter"
    /\ Enter("addToCart")
    /\ CASE siteName = "lenskart" -> pc' = "lk_subscribe" /\ UNCHANGED ret
         [] siteName = "swiggy" -> pc' = "sw_pre" /\ UNCHANGED ret
         [] OTHER -> pc' = "run_chk_cart" /\ Return("addToCart", "false")
    /\ UNCHANGED <<cfgVars, signinVars, helperVars, wiz, exitCode, customized, browser, page, utils, error, outcome, captures,
                   otp, typed, ctxVars, strayLeft, openCtx, addressed, cartVars, checkout>>

\* Mutant: the listener is not registered before the click is issued.
LkSubscribe_NotBeforeClick ==
    /\ pc = "lk_subscribe"
    /\ pc' = "lk_click"
    /\ UNCHANGED <<cfgVars, signinVars, helperVars, wiz, exitCode, customized, browser, page, utils, phases, ret, error, outcome,
                   captures, otp, typed, ctxVars, strayLeft, openCtx, addressed,
                   cartVars, checkout>>

\* addToCart(), lenskart: new Promise(resolve => this.browser.once('targetcreated', ...)).
\* The executor runs synchronously: the listener is registered here.
LkSubscribe ==
    /\ pc = "lk_subscribe"
    /\ listener' = "pending"
    /\ pc' = "lk_click"
    /\ UNCHANGED <<cfgVars, signinVars, helperVars, wiz, exitCode, customized, browser, page, utils, phases, ret, error, outcome,
                   captures, otp, typed, newPagePromise, productClick, spawn,
                   created, firedBy, handoff, strayLeft, openCtx, addressed, cartVars,
                   checkout>>

\* addToCart(), lenskart: clickElement on the first product card.  A click
\* that lands may or may not make the browser open a new tab; a click that
\* does not land returns false (the listener is left registered).
LkClickProduct ==
    /\ pc = "lk_click"
    /\ \E clicked \in BOOLEAN :
          IF clicked
          THEN /\ productClick' = "issued"
               /\ spawn' \in BOOLEAN
               /\ pc' = "lk_await"
               /\ UNCHANGED ret
          ELSE /\ productClick' = "failed"
               /\ Return("addToCart", "false")
               /\ pc' = "run_chk_cart"
               /\ UNCHANGED spawn
    /\ UNCHANGED <<cfgVars, signinVars, helperVars, wiz, exitCode, customized, browser, page, utils, phases, error, outcome,
                   captures, otp, typed, listener, newPagePromise, created,
                   firedBy, handoff, strayLeft, openCtx, addressed, cartVars, checkout>>

\* Mutant: the handoff closes the context it leaves.
LkAwait_ClosesPrior ==
    /\ pc = "lk_await"
    /\ newPagePromise # "unresolved"
    /\ IF newPagePromise = "null"
       THEN pc' = "atc_catch" /\ UNCHANGED <<page, handoff, openCtx>>
       ELSE /\ pc' = "lk_loaded"
            /\ page' = newPagePromise
            /\ handoff' = TRUE
            /\ openCtx' = openCtx \ {page}
    /\ UNCHANGED <<cfgVars, signinVars, helperVars, wiz, exitCode, customized, browser, utils, phases, ret,
                   error, outcome, captures, otp, typed, listener,
                   newPagePromise, productClick, spawn, created, firedBy,
                   strayLeft, addressed, cartVars, checkout>>

\* addToCart(), lenskart: `const newPage = await newPagePromise` has no
\* timeout: the step is enabled only once the promise has resolved.  Then
\* `newPage.waitForLoadState?.(...)` dereferences newPage (a TypeError when
\* target.page() gave null, caught by addToCart's catch) and
\* `this.page = newPage`.  this.utils keeps the page it was built with.
LkAwait ==
    /\ pc = "lk_await"
    /\ newPagePromise # "unresolved"
    /\ IF newPagePromise = "null"
       THEN pc' = "atc_catch" /\ UNCHANGED <<page, handoff>>
       ELSE pc' = "lk_loaded" /\ page' = newPagePromise /\ handoff' = TRUE
    /\ UNCHANGED <<cfgVars, signinVars, helperVars, wiz, exitCode, customized, browser, utils, phases, ret, error, outcome,
                   captures, otp, typed, listener, newPagePromise,
                   productClick, spawn, created, firedBy, strayLeft, openCtx,
                   addressed, cartVars, checkout>>

\* addToCart(), lenskart: utils.screenshot('05_product_page'), then
\* this.page.evaluate for #btn-primary and this.page.click('#btn-primary').
\* No primary button: return false.  A rejected evaluate/click: catch.
LkProductPage ==
    /\ pc = "lk_loaded"
    /\ captures' = Screenshot("05_product_page")
    /\ addressed' = Address(TRUE, TRUE)
    /\ \E r \in {"selectLenses", "buyNow", "notFound", "fault"} :
          CASE r = "selectLenses" -> pc' = "lk_lens" /\ UNCHANGED ret
            [] r = "buyNow" -> pc' = "lk_cart" /\ UNCHANGED ret
            [] r = "notFound" -> pc' = "run_chk_cart" /\ Return("addToCart", "false")
            [] r = "fault" -> pc' = "atc_catch" /\ UNCHANGED ret
    /\ UNCHANGED <<cfgVars, signinVars, helperVars, wiz, exitCode, customized, browser, page, utils, phases, error, outcome, otp,
                   typed, ctxVars, strayLeft, openCtx, cartVars, checkout>>

\* addToCart(), lenskart, `if (buttonInfo.isSelectLenses)`: the lens type
\* modal (click the first option) and the lens package modal (click the
\* first package, then CONTINUE), all through this.page; a rejected evaluate
\* goes to the catch.  this.config.hasCustomization is not read.
LkLens ==
    /\ pc = "lk_lens"
    /\ addressed' = Address(TRUE, FALSE)
    /\ \E r \in {"noModal", "selected", "fault"} :
          /\ pc' = IF r = "fault" THEN "atc_catch" ELSE "lk_cart"
          /\ customized' = (customized \/ r = "selected")
    /\ UNCHANGED <<cfgVars, signinVars, helperVars, wiz, exitCode, browser, page, utils, phases, ret, error, outcome,
                   captures, otp, typed, ctxVars, strayLeft, openCtx, cartVars, checkout>>

\* addToCart(), lenskart: utils.screenshot('06_cart'), then Proceed To
\* Checkout inside its own try: clicked -> capture 07_checkout, return true;
\* not clickable -> log an error and return false.
LkCart ==
    /\ pc = "lk_cart"
    /\ addressed' = Address(TRUE, TRUE)
    /\ \E ok \in BOOLEAN :
          IF ok
          THEN /\ checkout' = "clicked"
               /\ captures' = captures \cup {Shot("06_cart"), Shot("07_checkout")}
               /\ Return("addToCart", "true")
          ELSE /\ checkout' = "failed"
               /\ captures' = Screenshot("06_cart")
               /\ Return("addToCart", "false")
    /\ pc' = "run_chk_cart"
    /\ customized' = FALSE
    /\ UNCHANGED <<cfgVars, signinVars, helperVars, wiz, exitCode, browser, page, utils, phases, error, outcome, otp,
                   typed, ctxVars, strayLeft, openCtx, cartVars>>

\* addToCart(): catch (error) { log; utils.screenshot('error_add_to_cart'); return false }.
AtcCatch ==
    /\ pc = "atc_catch"
    /\ captures' = Screenshot("error_add_to_cart")
    /\ addressed' = Address(FALSE, TRUE)
    /\ Return("addToCart", "false")
    /\ pc' = "run_chk_cart"
    /\ customized' = FALSE
    /\ UNCHANGED <<cfgVars, signinVars, helperVars, wiz, exitCode, browser, page, utils, phases, error, outcome, otp,
                   typed, ctxVars, strayLeft, openCtx, cartVars, checkout>>

\* ------------------------------------------------------- the environment
\* The value the listener resolves newPagePromise with: `await target.page()`
\* is the page of a page target and null for any other target.
TargetPage(kind) ==
    CASE kind = "product" -> "product"
      [] kind = "stray" -> "stray"
      [] kind = "nonpage" -> "null"

\* The browser emits 'targetcreated': for the tab the product click opened,
\* or for an unrelated target.  EventEmitter.once: a pending listener is
\* removed and run; with no listener pending the event goes unobserved.
TargetCreated(kind) ==
    /\ browser = "open"
    /\ IF kind = "product"
       THEN spawn /\ spawn' = FALSE /\ UNCHANGED strayLeft
       ELSE strayLeft > 0 /\ strayLeft' = strayLeft - 1 /\ UNCHANGED spawn
    /\ created' = created \cup {kind}
    /\ openCtx' = openCtx \cup (IF kind = "nonpage" THEN {} ELSE {kind})
    /\ IF listener = "pending"
       THEN /\ listener' = "fired"
            /\ firedBy' = kind
            /\ newPagePromise' = TargetPage(kind)
       ELSE UNCHANGED <<listener, firedBy, newPagePromise>>
    /\ UNCHANGED <<cfgVars, signinVars, helperVars, wiz, exitCode, customized, pc, browser, page, utils, phases, ret, error,
                   outcome, captures, otp, typed, productClick, handoff,
                   addressed, cartVars, checkout>>

\* ------------------------------------------------------ addToCart, swiggy
\* getCartCount(): the number on the cart badge; 0 when no number can be
\* read or the evaluate rejects.
GetCartCount == {cart, 0}

\* An add click on the page: the site either puts the item in the cart or
\* does not react (a modal opened instead, the click hit a stale node).
AfterAddClick(issued) == IF issued THEN {cart, cart + 1} ELSE {cart}

\* addToCart(), swiggy: `const preCount = await this.getCartCount()`.
SwPre ==
    /\ pc = "sw_pre"
    /\ preCount' \in GetCartCount
    /\ pc' = "sw_click"
    /\ UNCHANGED <<cfgVars, signinVars, helperVars, wiz, exitCode, customized, browser, page, utils, phases, ret, error, outcome,
                   captures, otp, typed, ctxVars, strayLeft, openCtx, addressed, cart,
                   postCount, addedOk, verifyClicks, checkout>>

\* addToCart(), swiggy: click an ADD control (scan, then clickElement); when
\* none is clicked open the first restaurant (else return false), capture
\* 05_restaurant_menu and click ADD there (else return false).
SwClickAdd ==
    /\ pc = "sw_click"
    /\ \E r \in {"clicked", "notOpened", "openedClicked", "openedNotClicked"} :
          /\ captures' = IF r \in {"openedClicked", "openedNotClicked"}
                         THEN Screenshot("05_restaurant_menu") ELSE captures
          /\ IF r \in {"clicked", "openedClicked"}
             THEN /\ cart' \in AfterAddClick(TRUE)
                  /\ pc' = "sw_details"
                  /\ UNCHANGED ret
             ELSE /\ Return("addToCart", "false")
                  /\ pc' = "run_chk_cart"
                  /\ UNCHANGED cart
    /\ UNCHANGED <<cfgVars, signinVars, helperVars, wiz, exitCode, customized, browser, page, utils, phases, error, outcome, otp,
                   typed, ctxVars, strayLeft, openCtx, addressed, preCount, postCount,
                   addedOk, verifyClicks, checkout>>

\* addToCart(), swiggy: if a details dialog with an ADD control opened, click
\* it (inside a try).
SwDetails ==
    /\ pc = "sw_details"
    /\ \E hadDetails \in BOOLEAN : cart' \in AfterAddClick(hadDetails)
    /\ pc' = "sw_customize"
    /\ UNCHANGED <<cfgVars, signinVars, helperVars, wiz, exitCode, customized, browser, page, utils, phases, ret, error, outcome,
                   captures, otp, typed, ctxVars, strayLeft, openCtx, addressed,
                   preCount, postCount, addedOk, verifyClicks, checkout>>

\* addToCart(), swiggy: `await this.handleCustomization()` (result dropped).
\* Without hasCustomization it returns at once.  Otherwise it may find the
\* wizard (capture 05_food_customization_step1) and may click the final add
\* control; a fault is caught inside (capture error_customization).
SwCustomize ==
    /\ pc = "sw_customize"
    /\ IF ~hasCustomization
       THEN UNCHANGED <<cart, captures, customized>>
       ELSE \E r \in {"noModal", "quickAdd", "wizard", "fault"} :
               /\ cart' \in AfterAddClick(r \in {"quickAdd", "wizard"})
               /\ customized' = (customized \/ r \in {"quickAdd", "wizard"})
               /\ captures' =
                     CASE r = "wizard" -> Screenshot("05_food_customization_step1")
                       [] r = "fault" -> Screenshot("error_customization")
                       [] OTHER -> captures
    /\ pc' = "sw_verify"
    /\ UNCHANGED <<cfgVars, signinVars, helperVars, wiz, exitCode, browser, page, utils, phases, ret, error, outcome,
                   otp, typed, ctxVars, strayLeft, openCtx, addressed, preCount,
                   postCount, addedOk, verifyClicks, checkout>>

\* addToCart(), swiggy: addedOk = (header cart number > 0) or a control whose
\* text says added / qty / item added; FALSE when the evaluate rejects.
SwVerify ==
    /\ pc = "sw_verify"
    /\ \E badge \in BOOLEAN, ui \in BOOLEAN :
          addedOk' = ((badge /\ cart > 0) \/ ui)
    /\ pc' = IF addedOk' THEN "sw_post" ELSE "sw_retry"
    /\ UNCHANGED <<cfgVars, signinVars, helperVars, wiz, exitCode, customized, browser, page, utils, phases, ret, error, outcome,
                   captures, otp, typed, ctxVars, strayLeft, openCtx, addressed, cart,
                   preCount, postCount, verifyClicks, checkout>>

\* The retry block, written twice in addToCart(): click the wizard's final
\* add control (button[data-cy="customize-footer-add-button"]) if present,
\* else clickElement on the card ADD; inside a try.
RetryAdd ==
    \E issued \in BOOLEAN :
        /\ verifyClicks' = verifyClicks + (IF issued THEN 1 ELSE 0)
        /\ cart' \in AfterAddClick(issued)

\* addToCart(), swiggy: `if (!addedOk) { try final Add once }`.
SwRetry ==
    /\ pc = "sw_retry"
    /\ RetryAdd
    /\ pc' = "sw_post"
    /\ UNCHANGED <<cfgVars, signinVars, helperVars, wiz, exitCode, customized, browser, page, utils, phases, ret, error, outcome,
                   captures, otp, typed, ctxVars, strayLeft, openCtx, addressed,
                   preCount, postCount, addedOk, checkout>>

\* addToCart(), swiggy: `const postCount = await this.getCartCount();
\* if (postCount <= preCount) { ...retry... }`.
SwPost ==
    /\ pc = "sw_post"
    /\ postCount' \in GetCartCount
    /\ pc' = IF postCount' <= preCount THEN "sw_retry2" ELSE "sw_return"
    /\ UNCHANGED <<cfgVars, signinVars, helperVars, wiz, exitCode, customized, browser, page, utils, phases, ret, error, outcome,
                   captures, otp, typed, ctxVars, strayLeft, openCtx, addressed, cart,
                   preCount, addedOk, verifyClicks, checkout>>

\* addToCart(), swiggy: 'Retrying add once...': the same click again.
SwRetry2 ==
    /\ pc = "sw_retry2"
    /\ RetryAdd
    /\ pc' = "sw_return"
    /\ UNCHANGED <<cfgVars, signinVars, helperVars, wiz, exitCode, customized, browser, page, utils, phases, ret, error, outcome,
                   captures, otp, typed, ctxVars, strayLeft, openCtx, addressed,
                   preCount, postCount, addedOk, checkout>>

\* addToCart(), swiggy: screenshot('06_cart'); log 'Item added to cart
\* successfully'; return true.  Nothing is read again after the retry.
SwReturn ==
    /\ pc = "sw_return"
    /\ captures' = Screenshot("06_cart")
    /\ Return("addToCart", "true")
    /\ pc' = "run_chk_cart"
    /\ customized' = FALSE
    /\ UNCHANGED <<cfgVars, signinVars, helperVars, wiz, exitCode, browser, page, utils, phases, error, outcome, otp,
                   typed, ctxVars, strayLeft, openCtx, addressed, cartVars, checkout>>

\* ------------------------------------------------------------ run()'s tail
\* run(): `if (!cartSuccess) throw new Error('Add to cart failed')`, then
\* `if (this.siteName !== 'lenskart') await this.openCartTopbar()`.
RunCheckCart ==
    /\ pc = "run_chk_cart"
    /\ IF ret["addToCart"] # "true"
       THEN pc' = "run_catch" /\ error' = "AddToCartFailed"
       ELSE /\ pc' = IF siteName # "lenskart" THEN "finalize" ELSE "run_success"
            /\ UNCHANGED error
    /\ UNCHANGED <<cfgVars, signinVars, helperVars, wiz, exitCode, customized, browser, page, utils, phases, ret, outcome,
                   captures, otp, typed, ctxVars, strayLeft, openCtx, addressed,
                   cartVars, checkout>>

\* Mutant: a cart that cannot be opened aborts the run.
OpenCartTopbar_Fatal ==
    /\ pc = "finalize"
    /\ Enter("finalize")
    /\ \E clicked \in BOOLEAN :
          IF clicked
          THEN /\ captures' = Screenshot("07_cart_page")
               /\ Return("finalize", "true")
               /\ pc' = "run_success"
               /\ UNCHANGED error
          ELSE /\ UNCHANGED captures
               /\ Return("finalize", "false")
               /\ pc' = "run_catch"
               /\ error' = "OpenCartFailed"
    /\ addressed' = Address(FALSE, TRUE)
    /\ UNCHANGED <<cfgVars, signinVars, helperVars, wiz, exitCode, customized, browser, page, utils, outcome, otp, typed,
                   ctxVars, strayLeft, openCtx, cartVars, checkout>>

\* openCartTopbar(): clickElement on the cart control; not found: warn and
\* return false; found: wait, screenshot('07_cart_page'), return true.
OpenCartTopbar ==
    /\ pc = "finalize"
    /\ Enter("finalize")
    /\ \E clicked \in BOOLEAN :
          IF clicked
          THEN captures' = Screenshot("07_cart_page") /\ Return("finalize", "true")
          ELSE UNCHANGED captures /\ Return("finalize", "false")
    /\ addressed' = Address(FALSE, TRUE)
    /\ pc' = "run_success"
    /\ UNCHANGED <<cfgVars, signinVars, helperVars, wiz, exitCode, customized, browser, page, utils, error, outcome, otp, typed,
                   ctxVars, strayLeft, openCtx, cartVars, checkout>>

\* run(): log 'Automation completed successfully', keep the browser open 10 s.
RunSuccess ==
    /\ pc = "run_success"
    /\ pc' = "run_finally"
    /\ UNCHANGED <<cfgVars, signinVars, helperVars, wiz, exitCode, customized, browser, page, utils, phases, ret, error, outcome,
                   captures, otp, typed, ctxVars, strayLeft, openCtx, addressed,
                   cartVars, checkout>>

\* run(): catch (error) { this.utils.log(...); await this.utils.screenshot('error_final');
\* throw error }.  While this.utils is still null the first statement throws
\* a TypeError, which replaces the error being handled; nothing is captured.
RunCatch ==
    /\ pc = "run_catch"
    /\ IF utils = "null"
       THEN error' = "TypeError" /\ UNCHANGED <<captures, addressed>>
       ELSE /\ captures' = Screenshot("error_final")
            /\ addressed' = Address(FALSE, TRUE)
            /\ UNCHANGED error
    /\ pc' = "run_finally"
    /\ UNCHANGED <<cfgVars, signinVars, helperVars, wiz, exitCode, customized, browser, page, utils, phases, ret, outcome, otp,
                   typed, ctxVars, strayLeft, openCtx, cartVars, checkout>>

\* run(): finally { if (this.browser) { await this.browser.close();
\* this.utils.log('Browser closed') } }.  A close that rejects leaves the
\* browser as it was and replaces the error; with this.utils null the log
\* throws a TypeError after the close.  run() then settles.
RunFinally ==
    /\ pc = "run_finally"
    /\ IF browser = "null"
       THEN UNCHANGED <<browser, error, openCtx>>
       ELSE \E closed \in BOOLEAN :
               IF closed
               THEN /\ browser' = "closed"
                    /\ openCtx' = {}
                    /\ error' = IF utils = "null" THEN "TypeError" ELSE error
               ELSE /\ UNCHANGED <<browser, openCtx>>
                    /\ error' = "CloseError"
    /\ outcome' = IF error' = "none" THEN "resolved" ELSE "rejected"
    /\ pc' = "done"
    /\ UNCHANGED <<cfgVars, signinVars, helperVars, wiz, exitCode, customized, page, utils, phases, ret, captures, otp, typed,
                   ctxVars, strayLeft, addressed, cartVars, checkout>>

\* ------------------------------------------------- Utils: the primitives
\* One call of a Utils helper on a page, one probe of the page per step.
\* The page answers each probe as it likes: the visibility wait times out
\* ("notFound"), the element is found but the click / type rejects
\* ("actionFailed"), or the step goes through ("ok").
Helpers == {"waitForSelector", "clickElement", "typeText", "elementExists"}

\* The variables of the automaton, which a Utils call leaves alone.
programVars == <<cfgVars, signinVars, wiz, exitCode, customized, pc, browser, page, utils, phases, ret,
                 error, outcome, captures, otp, typed, ctxVars, strayLeft,
                 openCtx, addressed, cartVars, checkout>>

\* A call is made: the selector list (a single string is wrapped into a list
\* of one) and, for clickElement, options.retries.  The automaton itself is
\* as constructed.
UtilsInit ==
    /\ siteName = "generic"
    /\ requiresLocation = FALSE
    /\ hasCustomization = FALSE
    /\ authMode = "auto"
    /\ pc = "utils"
    /\ browser = "null"
    /\ page = "null"
    /\ utils = "null"
    /\ phases = << >>
    /\ ret = [p \in Phases |-> "none"]
    /\ error = "none"
    /\ outcome = "running"
    /\ captures = {}
    /\ otp = "none"
    /\ typed = FALSE
    /\ listener = "none"
    /\ newPagePromise = "unresolved"
    /\ productClick = "none"
    /\ spawn = FALSE
    /\ strayLeft = 0
    /\ created = {}
    /\ firedBy = "none"
    /\ handoff = FALSE
    /\ addressed = {}
    /\ cart = 0
    /\ preCount = 0
    /\ postCount = -1
    /\ addedOk = FALSE
    /\ verifyClicks = 0
    /\ checkout = "none"
    /\ openCtx = {}
    /\ didOpenSignupForm = FALSE
    /\ signInClickable = FALSE
    /\ alreadyRegistered = FALSE
    /\ signupSubmits = 0
    /\ signupId = "none"
    /\ pivots = 0
    /\ pivotSwitched = FALSE
    /\ signinId = "none"
    /\ resubmitted = FALSE
    /\ challenge = "none"
    /\ doc = NoDoc
    /\ clock = 0
    /\ seenA = FALSE
    /\ helper \in Helpers
    /\ nSelectors \in (IF helper = "elementExists" THEN {1} ELSE 0..MaxSelectors)
    /\ retries \in (IF helper = "clickElement" THEN 0..MaxRetries ELSE {1})
    /\ pressEnter \in (IF helper = "typeText" THEN BOOLEAN ELSE {FALSE})
    /\ attempt = 1
    /\ idx = 1
    /\ probes = << >>
    /\ result = "pending"
    /\ used = 0
    /\ sink = "up"
    /\ argsOk = TRUE
    /\ exitCode = -1
    /\ customized = FALSE
    /\ wiz = NoWizard

\* A probe of selector idx in pass attempt, with the page's answer.
Probe(o) == probes' = Append(probes, <<attempt, idx, o>>)

\* Utils.waitForSelector: for each selector in order, page.waitForSelector in
\* a try; found: return the selector; none found: throw.
WaitForSelector ==
    /\ helper = "waitForSelector" /\ result = "pending"
    /\ IF idx > nSelectors
       THEN result' = "threw" /\ UNCHANGED <<probes, idx, used>>
       ELSE \E o \in {"notFound", "ok"} :
               /\ Probe(o)
               /\ IF o = "ok"
                  THEN result' = "selector" /\ used' = idx /\ UNCHANGED idx
                  ELSE idx' = idx + 1 /\ UNCHANGED <<result, used>>
    /\ UNCHANGED <<programVars, helper, nSelectors, retries, pressEnter, attempt>>

\* Mutant: a click that went through does not end the pass.
ClickElement_KeepsProbing ==
    /\ helper = "clickElement" /\ result = "pending"
    /\ IF attempt > retries
       THEN result' = "false" /\ UNCHANGED <<probes, idx, used, attempt>>
       ELSE IF idx > nSelectors
            THEN /\ IF used > 0
                    THEN result' = "true" /\ UNCHANGED <<attempt, idx>>
                    ELSE attempt' = attempt + 1 /\ idx' = 1 /\ UNCHANGED result
                 /\ UNCHANGED <<probes, used>>
            ELSE \E o \in {"notFound", "actionFailed", "ok"} :
                    /\ Probe(o)
                    /\ idx' = idx + 1
                    /\ used' = IF o = "ok" THEN idx ELSE used
                    /\ UNCHANGED <<result, attempt>>
    /\ UNCHANGED <<programVars, helper, nSelectors, retries, pressEnter>>

\* Mutant: the loop over passes stops one pass early.
ClickElement_OnePassShort ==
    /\ helper = "clickElement" /\ result = "pending"
    /\ IF attempt >= retries
       THEN result' = "false" /\ UNCHANGED <<probes, idx, used, attempt>>
       ELSE IF idx > nSelectors
            THEN /\ attempt' = attempt + 1
                 /\ idx' = 1
                 /\ UNCHANGED <<probes, result, used>>
            ELSE \E o \in {"notFound", "actionFailed", "ok"} :
                    /\ Probe(o)
                    /\ IF o = "ok"
                       THEN result' = "true" /\ used' = idx /\ UNCHANGED idx
                       ELSE idx' = idx + 1 /\ UNCHANGED <<result, used>>
                    /\ UNCHANGED attempt
    /\ UNCHANGED <<programVars, helper, nSelectors, retries, pressEnter>>

\* Utils.clickElement: for (attempt = 1; attempt <= retries; attempt++), for
\* each selector in order: waitForSelector + click in a try; through: return
\* true; after the loops: log and return false.
ClickElement ==
    /\ helper = "clickElement" /\ result = "pending"
    /\ IF attempt > retries
       THEN result' = "false" /\ UNCHANGED <<probes, idx, used, attempt>>
       ELSE IF idx > nSelectors
            THEN /\ attempt' = attempt + 1
                 /\ idx' = 1
                 /\ UNCHANGED <<probes, result, used>>
            ELSE \E o \in {"notFound", "actionFailed", "ok"} :
                    /\ Probe(o)
                    /\ IF o = "ok"
                       THEN result' = "true" /\ used' = idx /\ UNCHANGED idx
                       ELSE idx' = idx + 1 /\ UNCHANGED <<result, used>>
                    /\ UNCHANGED attempt
    /\ UNCHANGED <<programVars, helper, nSelectors, retries, pressEnter>>

\* What one pass of typeText's try can come to: the visibility wait times
\* out ("notFound"); the clearing click or page.type rejects before the text
\* is in ("actionFailed"); the text is typed and keyboard.press('Enter')
\* rejects ("enterFailed", only with pressEnter); all of it goes through.
TypeOutcomes ==
    {"notFound", "actionFailed", "ok"} \cup (IF pressEnter THEN {"enterFailed"} ELSE {})

\* Mutant: typeText raises when no selector took the text.
TypeText_RaisesOnAbsence ==
    /\ helper = "typeText" /\ result = "pending"
    /\ IF idx > nSelectors
       THEN result' = "threw" /\ UNCHANGED <<probes, idx, used>>
       ELSE \E o \in {"notFound", "actionFailed", "ok"} :
               /\ Probe(o)
               /\ IF o = "ok"
                  THEN result' = "true" /\ used' = idx /\ UNCHANGED idx
                  ELSE idx' = idx + 1 /\ UNCHANGED <<result, used>>
    /\ UNCHANGED <<programVars, helper, nSelectors, retries, pressEnter, attempt>>

\* Utils.typeText: for each selector in order: waitForSelector, clear, type,
\* Enter (if pressEnter) in one try; through: return true; a rejection
\* anywhere in the try, the Enter press included, goes on to the next
\* selector; after the loop: log, return false.
TypeText ==
    /\ helper = "typeText" /\ result = "pending"
    /\ IF idx > nSelectors
       THEN result' = "false" /\ UNCHANGED <<probes, idx, used>>
       ELSE \E o \in TypeOutcomes :
               /\ Probe(o)
               /\ IF o = "ok"
                  THEN result' = "true" /\ used' = idx /\ UNCHANGED idx
                  ELSE idx' = idx + 1 /\ UNCHANGED <<result, used>>
    /\ UNCHANGED <<programVars, helper, nSelectors, retries, pressEnter, attempt>>

\* Utils.elementExists: try { waitForSelector; return true } catch { return false }.
ElementExists ==
    /\ helper = "elementExists" /\ result = "pending"
    /\ \E o \in {"notFound", "ok"} :
          /\ Probe(o)
          /\ result' = IF o = "ok" THEN "true" ELSE "false"
          /\ used' = IF o = "ok" THEN idx ELSE used
    /\ UNCHANGED <<programVars, helper, nSelectors, retries, pressEnter, attempt, idx>>

UtilsNext == WaitForSelector \/ ClickElement \/ TypeText \/ ElementExists

UtilsSpec == UtilsInit /\ [][UtilsNext]_vars

\* ------------------------------------------- handleCustomization, swiggy
\* One call of handleCustomization() on a dialog, one ladder step per action.
\* Every step but the polling is inside its own try: a click that rejects
\* is swallowed and the step counts as not applied.
wizFrame == <<cfgVars, signinVars, helperVars, exitCode, browser, page, utils,
              phases, ret, error, outcome, otp, typed, ctxVars, strayLeft,
              openCtx, addressed, cartVars, checkout>>

\* The call is made from addToCart() on the swiggy path (the only caller),
\* with the item's dialog as the site built it.
WizardInit ==
    /\ siteName = "swiggy"
    /\ requiresLocation = TRUE
    /\ hasCustomization \in BOOLEAN
    /\ authMode = "auto"
    /\ sink = "up"
    /\ argsOk = TRUE
    /\ exitCode = -1
    /\ pc = "hc_enter"
    /\ browser = "open"
    /\ page = "main"
    /\ utils = "main"
    /\ phases = <<"init", "signin", "setLocation", "search", "addToCart">>
    /\ ret = [p \in Phases |->
                IF p \in {"init", "signin", "setLocation", "search"} THEN "true" ELSE "none"]
    /\ error = "none"
    /\ outcome = "running"
    /\ captures = {}
    /\ otp = "none"
    /\ typed = TRUE
    /\ listener = "none"
    /\ newPagePromise = "unresolved"
    /\ productClick = "none"
    /\ spawn = FALSE
    /\ strayLeft = 0
    /\ created = {}
    /\ firedBy = "none"
    /\ handoff = FALSE
    /\ addressed = {}
    /\ cart = 0
    /\ preCount = 0
    /\ postCount = -1
    /\ addedOk = FALSE
    /\ verifyClicks = 0
    /\ checkout = "none"
    /\ openCtx = {"main"}
    /\ didOpenSignupForm = FALSE
    /\ signInClickable = FALSE
    /\ alreadyRegistered = FALSE
    /\ signupSubmits = 0
    /\ signupId = "none"
    /\ pivots = 0
    /\ pivotSwitched = FALSE
    /\ signinId = "none"
    /\ resubmitted = FALSE
    /\ challenge = "none"
    /\ doc = NoDoc
    /\ clock = 0
    /\ seenA = FALSE
    /\ helper = "none"
    /\ nSelectors = 0
    /\ retries = 0
    /\ pressEnter = FALSE
    /\ attempt = 0
    /\ idx = 0
    /\ probes = << >>
    /\ result = "pending"
    /\ used = 0
    /\ customized = FALSE
    /\ \E n \in 0..MaxGroups, k \in OptionCounts :
         \E s \in [1..n -> 0..k], rule \in {"always", "whenComplete", "never"},
            pages \in 0..MaxPages, other \in BOOLEAN :
            wiz = [NoWizard EXCEPT !.sel = s, !.nOptions = k, !.submitRule = rule,
                                   !.continueLeft = pages, !.pages = pages,
                                   !.otherBtn = other,
                                   !.need = Cardinality({g \in 1..n : s[g] = 0})]

\* A ladder step is logged with its outcome: the control was "absent", the
\* click "failed" (it rejected and was swallowed), or the step applied
\* ("clicked"; for an option "picked", or "repicked" when radios[0] was
\* clicked because no radio was unchecked).
Rung(name, o) ==
    IF name = "continue" THEN <<<<name, o>>>> ELSE Append(wiz.rungs, <<name, o>>)
Fault(o) == wiz.faults + (IF o = "failed" THEN 1 ELSE 0)

\* What trying a control can come to.
Tried(present, hit) ==
    IF present
    THEN {hit} \cup (IF wiz.faults < MaxFaults THEN {"failed"} ELSE {})
    ELSE {"absent"}
Applied(o) == o \in {"clicked", "picked", "repicked"}

\* `continue` and the end of the loop body: step++, then the loop condition.
NextIteration(s) == IF s < StepBudget THEN "hc_continue" ELSE "hc_after"

\* The dialog's visible radio inputs that are not checked, as <<group, option>>,
\* and the first of a set of radios in document order.
Unchecked == {r \in (1..Len(wiz.sel)) \X (1..wiz.nOptions) : wiz.sel[r[1]] # r[2]}
FirstRadio(S) ==
    CHOOSE r \in S : \A q \in S : r[1] < q[1] \/ (r[1] = q[1] /\ r[2] <= q[2])

\* button[data-cy="customize-footer-add-button"], or an element whose text
\* is 'add item to cart', is in the dialog.
SubmitPresent ==
    \/ wiz.submitRule = "always"
    \/ wiz.submitRule = "whenComplete" /\ \A g \in 1..Len(wiz.sel) : wiz.sel[g] # 0

\* handleCustomization(): `if (!this.config.hasCustomization) return true`;
\* any site but swiggy and lenskart falls to the `return true` at the end
\* (the lenskart branch uses non-throwing helpers only and also returns true).
HandleCustomization ==
    /\ pc = "hc_enter"
    /\ IF ~hasCustomization \/ siteName # "swiggy"
       THEN wiz' = [wiz EXCEPT !.returned = "true"] /\ pc' = "hc_done"
       ELSE pc' = "hc_poll" /\ UNCHANGED wiz
    /\ UNCHANGED <<wizFrame, captures, customized>>

\* Up to four polls for the dialog.  No dialog but the final add control is
\* there: click it (inside a try) and return true.  Neither within the four
\* polls: `return true`.  The evaluate / $ of the poll are not inside a try
\* of their own: a rejection goes to the catch.
HcPoll ==
    /\ pc = "hc_poll"
    /\ \E r \in {"modal", "quickAdd", "nothing", "fault"} :
          CASE r = "modal" ->
                  /\ captures' = Screenshot("05_food_customization_step1")
                  /\ pc' = "hc_continue"
                  /\ UNCHANGED <<wiz, customized>>
            [] r = "quickAdd" ->
                  /\ customized' = TRUE
                  /\ wiz' = [wiz EXCEPT !.returned = "true"]
                  /\ pc' = "hc_done"
                  /\ UNCHANGED captures
            [] r = "nothing" ->
                  /\ wiz' = [wiz EXCEPT !.returned = "true"]
                  /\ pc' = "hc_done"
                  /\ UNCHANGED <<captures, customized>>
            [] r = "fault" ->
                  /\ pc' = "hc_catch"
                  /\ UNCHANGED <<wiz, captures, customized>>
    /\ UNCHANGED wizFrame

\* HcContinue, were the loop to go on down the ladder after a continue click.
HcContinue_FallsThrough ==
    /\ pc = "hc_continue"
    /\ \E o \in Tried(wiz.continueLeft > 0, "clicked") :
          /\ wiz' = [wiz EXCEPT !.rungs = Rung("continue", o), !.faults = Fault(o),
                                !.continueLeft = IF o = "clicked" THEN @ - 1 ELSE @]
          /\ pc' = "hc_final"
          /\ customized' = (customized \/ o = "clicked")
    /\ UNCHANGED <<wizFrame, captures>>

\* Ladder step 1: button[data-testid="menu-customize-continue-button"] is in
\* the document: click it, `continued = true`, then `continue`.
HcContinue ==
    /\ pc = "hc_continue"
    /\ \E o \in Tried(wiz.continueLeft > 0, "clicked") :
          IF o = "clicked"
          THEN /\ wiz' = [wiz EXCEPT !.rungs = Rung("continue", o), !.faults = Fault(o),
                                     !.continueLeft = @ - 1,
                                     !.step = @ + 1]
               /\ pc' = NextIteration(wiz.step + 1)
               /\ customized' = TRUE
          ELSE /\ wiz' = [wiz EXCEPT !.rungs = Rung("continue", o), !.faults = Fault(o)]
               /\ pc' = "hc_final"
               /\ UNCHANGED customized
    /\ UNCHANGED <<wizFrame, captures>>

\* HcFinal, were a click on the final add control not to end the loop.
HcFinal_KeepsLooping ==
    /\ pc = "hc_final"
    /\ \E o \in Tried(SubmitPresent, "clicked") :
          IF o = "clicked"
          THEN /\ wiz' = [wiz EXCEPT !.rungs = Rung("final", o), !.faults = Fault(o), !.step = @ + 1]
               /\ pc' = "hc_continue"
               /\ customized' = TRUE
          ELSE /\ wiz' = [wiz EXCEPT !.rungs = Rung("final", o), !.faults = Fault(o)]
               /\ pc' = "hc_pick"
               /\ UNCHANGED customized
    /\ UNCHANGED <<wizFrame, captures>>

\* Ladder step 2: the final add control: click it, `completed = true; break`.
HcFinal ==
    /\ pc = "hc_final"
    /\ \E o \in Tried(SubmitPresent, "clicked") :
          IF o = "clicked"
          THEN /\ wiz' = [wiz EXCEPT !.rungs = Rung("final", o), !.faults = Fault(o), !.completed = TRUE]
               /\ pc' = "hc_after"
               /\ customized' = TRUE
          ELSE /\ wiz' = [wiz EXCEPT !.rungs = Rung("final", o), !.faults = Fault(o)]
               /\ pc' = "hc_pick"
               /\ UNCHANGED customized
    /\ UNCHANGED <<wizFrame, captures>>

\* Ladder step 3: `radios.find(x => !x.checked) || radios[0]`: the first
\* visible radio that is not checked, else the first visible radio; click
\* it and `continue`.  A radio that is clicked becomes the checked one of
\* its group.  No radio, or a rejected evaluate: on to step 4.
HcPick ==
    /\ pc = "hc_pick"
    /\ \E o \in Tried(Len(wiz.sel) > 0, IF Unchecked # {} THEN "picked" ELSE "repicked") :
          IF Applied(o)
          THEN /\ wiz' = [wiz EXCEPT
                            !.rungs = Rung("pick", o), !.faults = Fault(o),
                            !.sel = IF o = "picked"
                                    THEN [@ EXCEPT ![FirstRadio(Unchecked)[1]] =
                                                      FirstRadio(Unchecked)[2]]
                                    ELSE @,
                            !.picks = @ + 1,
                            !.step = @ + 1]
               /\ pc' = NextIteration(wiz.step + 1)
               /\ customized' = TRUE
          ELSE /\ wiz' = [wiz EXCEPT !.rungs = Rung("pick", o), !.faults = Fault(o)]
               /\ pc' = "hc_last"
               /\ UNCHANGED customized
    /\ UNCHANGED <<wizFrame, captures>>

\* Ladder step 4, the last resort: the first button of the dialog whose text
\* matches /continue|add/i; then the loop body ends.
HcLast ==
    /\ pc = "hc_last"
    /\ \E o \in Tried(wiz.otherBtn \/ wiz.continueLeft > 0 \/ SubmitPresent, "clicked") :
          /\ wiz' = [wiz EXCEPT !.rungs = Rung("last", o), !.faults = Fault(o), !.step = @ + 1]
          /\ customized' = (customized \/ o = "clicked")
    /\ pc' = NextIteration(wiz.step + 1)
    /\ UNCHANGED <<wizFrame, captures>>

\* After the loop: `if (!completed) await clickElement([addToCartCustomize,
\* addToCartAlt])`, whose result is dropped; log 'Customization completed';
\* return true.
HcAfter ==
    /\ pc = "hc_after"
    /\ IF wiz.completed
       THEN wiz' = [wiz EXCEPT !.logged = "completed", !.returned = "true"]
       ELSE \E hit \in BOOLEAN :
               wiz' = [wiz EXCEPT !.finalAttempt = IF hit THEN "clicked" ELSE "missed",
                                  !.logged = "completed", !.returned = "true"]
    /\ customized' = (customized \/ wiz'.finalAttempt = "clicked")
    /\ pc' = "hc_done"
    /\ UNCHANGED <<wizFrame, captures>>

\* catch (error): log 'Customization handling failed', screenshot
\* ('error_customization'), return false.
HcCatch ==
    /\ pc = "hc_catch"
    /\ wiz' = [wiz EXCEPT !.logged = "failed", !.returned = "false"]
    /\ captures' = Screenshot("error_customization")
    /\ pc' = "hc_done"
    /\ UNCHANGED <<wizFrame, customized>>

WizardNext ==
    \/ HandleCustomization \/ HcPoll
    \/ HcContinue \/ HcFinal \/ HcPick \/ HcLast
    \/ HcAfter \/ HcCatch

WizardSpec == WizardInit /\ [][WizardNext]_vars

\* The event loop runs every continuation that is ready.
WizardFairSpec == WizardSpec /\ WF_vars(WizardNext)

\* ---------------------------------------------------------- specification
Program ==
    \/ Main \/ MainExit
    \/ InitLaunch \/ InitNewPage \/ InitNavigate \/ InitCapture
    \/ SigninOpen \/ SigninForm
    \/ LkFormDialog \/ LkFormSignIn \/ LkFormAuto \/ LkFormExplicit
    \/ LkPivotAuto \/ LkPivotExplicit
    \/ SigninWait \/ SigninPhaseA \/ SigninPhaseB \/ SigninReturn
    \/ RunAfterSignin \/ SetLocation \/ Search \/ RunCheckSearch
    \/ AddToCartEnter
    \/ LkSubscribe \/ LkClickProduct \/ LkAwait \/ LkProductPage \/ LkLens
    \/ LkCart \/ AtcCatch
    \/ SwPre \/ SwClickAdd \/ SwDetails \/ SwCustomize \/ SwVerify \/ SwRetry
    \/ SwPost \/ SwRetry2 \/ SwReturn
    \/ RunCheckCart \/ OpenCartTopbar \/ RunSuccess \/ RunCatch \/ RunFinally

Environment ==
    \/ \E kind \in {"product", "stray", "nonpage"} : TargetCreated(kind)
    \/ PageChanges
    \/ Tick

Next == Program \/ Environment

Spec == Init /\ [][Next]_vars

\* The same program over a capture sink that is down.
SinkSpec == SinkInit /\ [][Next]_vars

\* The event loop runs every continuation that is ready, and a browser that
\* opens a tab for the click emits its 'targetcreated' event, and time
\* passes in a wait.  Unrelated targets need never be created, and the page
\* need never change.
FairSpec ==
    Spec /\ WF_vars(Program) /\ WF_vars(TargetCreated("product")) /\ WF_vars(Tick)

\* ================================================================= claims
InPhases(p) == \E i \in 1..Len(phases) : phases[i] = p
IsPrefix(s, t) == Len(s) <= Len(t) /\ \A i \in 1..Len(s) : s[i] = t[i]
Captured(label) == \E c \in captures : c[1] = label /\ c[3]

\* The order run() gives the phases for this site profile.
ExpectedOrder ==
    <<"init", "signin">>
    \o (IF requiresLocation THEN <<"setLocation">> ELSE << >>)
    \o <<"search", "addToCart">>
    \o (IF siteName # "lenskart" THEN <<"finalize">> ELSE << >>)

\* C1: the phases are entered in the order init, signin, setLocation (only
\* when requiresLocation), search, addToCart, finalize; each at most once;
\* none before the one before it has returned.
C1_PhaseOrder ==
    /\ IsPrefix(phases, ExpectedOrder)
    /\ \A i \in 2..Len(phases) : ret[phases[i - 1]] \in {"true", "false"}

C1_Witness ==
    /\ pc = "done"
    /\ requiresLocation
    /\ phases = <<"init", "signin", "setLocation", "search", "addToCart", "finalize">>

\* C2: search and addToCart are critical.  Once search() has returned false
\* addToCart() and openCartTopbar() are never entered and run() rejects; once
\* addToCart() has returned false openCartTopbar() is never entered and run()
\* rejects.
C2_CriticalPhasesAbort ==
    /\ ret["search"] = "false" =>
          /\ ~InPhases("addToCart") /\ ~InPhases("finalize")
          /\ pc = "done" => outcome = "rejected"
    /\ ret["addToCart"] = "false" =>
          /\ ~InPhases("finalize")
          /\ pc = "done" => outcome = "rejected"

C2_Witness ==
    /\ pc = "done"
    /\ siteName = "swiggy"
    /\ ret["search"] = "true"
    /\ ret["addToCart"] = "false"
    /\ outcome = "rejected"

\* C3: signin and setLocation are not critical.  Whatever they return, run()
\* raises no error in them or after them and goes on to search(): once
\* signin() has returned, the flow is at the location step, at search, or has
\* entered search.  An OTP wait that timed out still returns true (the
\* `return true` is the statement after the timeout is logged).
C3_NonCriticalContinue ==
    /\ (ret["signin"] # "none" /\ pc \notin {"run_after_signin", "loc", "search"})
          => InPhases("search")
    /\ (InPhases("signin") /\ ~InPhases("search")) =>
          (error = "none" /\ pc \notin {"run_catch", "run_finally", "done", "exited"})
    /\ (otp = "timeout" /\ pc # "si_return") => ret["signin"] = "true"

C3_Witness ==
    /\ otp = "timeout"
    /\ ret["setLocation"] = "false"
    /\ InPhases("search")
    /\ ret["search"] = "true"

\* C4 (as claimed): on swiggy addToCart() returns true only when the item is
\* confirmed in the cart: the first verification saw a positive signal, or
\* the cart count (as read, or as it now stands) exceeds the count before.
C4_ReturnsTrueOnlyIfConfirmed ==
    (siteName = "swiggy" /\ ret["addToCart"] = "true") =>
        (addedOk \/ postCount > preCount \/ cart > preCount)

\* C5 (as claimed): the verification steps after customization issue at most
\* one additional add click.
C5_AtMostOneRetryClick == verifyClicks <= 1

\* C6 (as claimed): on every site, once the cart/checkout view could not be
\* opened (openCartTopbar returned false; Proceed To Checkout not clickable)
\* run() still completes successfully unless closing the browser fails.
C6_FinalizeNonFatalEverySite ==
    (pc = "done" /\ browser = "closed"
       /\ (ret["finalize"] = "false" \/ checkout = "failed"))
       => outcome = "resolved"

\* C6 (amended): openCartTopbar() returning false does not abort the run: it
\* goes on to the completion log and resolves once the browser has closed.
\* On lenskart a Proceed To Checkout that cannot be clicked makes
\* addToCart() return false, and run() rejects.
C6_FinalizeNonFatalOffLenskart ==
    /\ ret["finalize"] = "false" =>
          /\ pc \in {"run_success", "run_finally", "done", "exited"}
          /\ (pc = "done" /\ browser = "closed") => outcome = "resolved"
    /\ checkout = "failed" =>
          /\ ret["addToCart"] = "false"
          /\ pc = "done" => outcome = "rejected"

C6_Witness ==
    /\ pc = "done"
    /\ ret["finalize"] = "false"
    /\ outcome = "resolved"

\* The failure that made the run fatal.
OriginalFailure ==
    CASE ret["init"] = "threw" /\ browser = "null" -> "LaunchError"
      [] ret["init"] = "threw" /\ browser # "null" /\ utils = "null" -> "NewPageError"
      [] ret["init"] = "threw" /\ utils # "null" -> "NavigationError"
      [] ret["search"] = "false" -> "SearchFailed"
      [] OTHER -> "AddToCartFailed"

Fatal == ret["init"] = "threw" \/ ret["search"] = "false" \/ ret["addToCart"] = "false"

\* C7 (as claimed): after every fatal failure run() has taken the final
\* diagnostic capture and, provided closing the browser did not itself fail,
\* has rejected with the original failure and left no browser open.
C7_FatalFailureCleanup ==
    (pc = "done" /\ Fatal) =>
        /\ outcome = "rejected"
        /\ Captured("error_final")
        /\ error # "CloseError" => (browser # "open" /\ error = OriginalFailure)

C9_BoundedHandoffWait ==
    pc = "lk_await" => (ENABLED Program \/ ENABLED TargetCreated("product"))

\* C10 (as claimed): after the handoff to the context the click opened,
\* every driver operation, through this.page or through the Utils helper,
\* addresses the new context only.
C10_OnlyNewContextAddressed ==
    (handoff /\ page = "product") => addressed \subseteq {"product"}

\* C11: when the listener was registered before the click and the only
\* context-creation event is the one the click caused, then after the handoff
\* this.page is the new context, and the prior context is still open for as
\* long as the browser is: the automaton closes no context, only the browser.
C11_HandoffKeepsPriorOpen ==
    (handoff /\ created = {"product"}) =>
        /\ page = "product"
        /\ browser = "open" => {"main", "product"} \subseteq openCtx

C11_Witness ==
    /\ pc = "run_finally"
    /\ handoff
    /\ created = {"product"}
    /\ page = "product"
    /\ browser = "open"
    /\ "main" \in openCtx

\* The authenticated signals the design names: an account-area control is
\* present, or no sign-in control is.
PositiveSignal == doc.userButton \/ doc.signedInHeader \/ ~doc.signInNode

\* C12 (as claimed): Phase B logs 'Sign-in detected' only on a document in
\* which the OTP challenge is absent and a positive authenticated signal is
\* present.
C12_DetectedOnlyWhenResolved ==
    (pc = "si_return" /\ otp = "detected") => (~OtpVisible /\ PositiveSignal)

\* C13 (as claimed): 'Sign-in detected' is logged only in a call of signin()
\* whose Phase A saw the OTP challenge appear.
C13_DetectedOnlyAfterChallengeSeen ==
    (pc = "si_return" /\ otp = "detected") => seenA

\* C14 (as claimed): for a challenge that appeared within Phase A's bound,
\* sign-in is not reported as detected before the challenge has resolved; it
\* is reported as detected when the challenge resolved (with an authenticated
\* signal) within Phase B's bound; and the wait is not reported as timed out
\* before Phase B's bound has elapsed.
C14_OtpTwoPhaseTiming ==
    pc = "si_return" =>
        /\ (seenA /\ otp = "detected") => challenge = "resolved"
        /\ (seenA /\ challenge = "resolved" /\ PositiveSignal) => otp = "detected"
        /\ otp = "timeout" => clock = PhaseBTimeout

\* C15 (as claimed): setLocation() and search() start only after the OTP wait
\* of signin() has settled, as detected or as timed out.
C15_SearchOnlyAfterOtpWait ==
    (InPhases("setLocation") \/ InPhases("search")) => otp \in {"detected", "timeout"}

\* C15 (amended): setLocation() and search() start only after signin() has
\* returned; a signin() that returned true has settled its OTP wait; a
\* signin() that returned false returned before the auth modal was opened
\* (sign-in button not clicked) and ran no OTP wait.
C15_OtpWaitSettledOrSkipped ==
    /\ (InPhases("setLocation") \/ InPhases("search")) =>
          ret["signin"] \in {"true", "false"}
    /\ ret["signin"] = "true" => otp \in {"detected", "timeout"}
    /\ ret["signin"] = "false" =>
          (otp = "none" /\ ~Captured("03_auth_modal_login"))

C15_Witness ==
    /\ InPhases("setLocation")
    /\ ret["signin"] = "true"
    /\ otp = "detected"

\* C16: in the lenskart branch of signin() the signup-to-signin pivot is
\* attempted at most once per call, whatever authMode and the page are.
C16_PivotAtMostOnce == pivots <= 1

C16_Witness ==
    /\ pc = "si_wait"
    /\ pivots = 1
    /\ pivotSwitched
    /\ signupSubmits = 1

\* C17 (as claimed): whenever account creation reported 'already
\* registered', the OTP wait starts only after the automaton has switched to
\* the sign-in form, typed there the identifier it used for signup, and
\* re-submitted.
C17_PivotSwitchesAndResubmits ==
    (pc = "si_wait" /\ alreadyRegistered) =>
        /\ pivotSwitched
        /\ signinId = "phone" /\ signinId = signupId
        /\ resubmitted

\* The probes of a call are made pass by pass, each pass in list order.
InListOrder ==
    \A i \in 1..Len(probes) :
        /\ probes[i][1] = ((i - 1) \div nSelectors) + 1
        /\ probes[i][2] = ((i - 1) % nSelectors) + 1

\* C18 (as claimed): the selectors are probed in list order and no selector
\* is probed after one that matched, i.e. whose element was found.
C18_NoProbeAfterMatch ==
    /\ InListOrder
    /\ \A i \in 1..Len(probes) : probes[i][3] # "notFound" => i = Len(probes)

\* C18 (amended): the selectors are probed in list order; no selector is
\* probed after one whose step went through (found, and clicked / typed
\* into); that selector is the one used; if the first selector goes through
\* it is the only one probed.  waitForSelector has no action after the
\* match, so there a match ends the probing.
C18_FallbackOrder ==
    /\ InListOrder
    /\ \A i \in 1..Len(probes) : probes[i][3] = "ok" => i = Len(probes)
    /\ result \in {"selector", "true"} =>
          /\ Len(probes) > 0
          /\ probes[Len(probes)] = <<attempt, used, "ok">>
    /\ result = "false" => \A i \in 1..Len(probes) : probes[i][3] # "ok"
    /\ (Len(probes) > 0 /\ probes[1][3] = "ok") => (Len(probes) = 1 /\ used = 1)
    /\ helper = "waitForSelector" =>
          \A i \in 1..Len(probes) : probes[i][3] # "notFound" => i = Len(probes)

C18_Witness ==
    /\ helper = "typeText"
    /\ result = "true"
    /\ used = 2
    /\ probes = <<<<1, 1, "actionFailed">>, <<1, 2, "ok">>>>

\* C19: clickElement with retries = R makes exactly R full passes over the
\* list and returns false when every probe fails; when a click first goes
\* through in pass k it returns true at once, with attempt = k, having made
\* k - 1 full passes and the part of pass k up to that selector.
C19_RetryAccounting ==
    helper = "clickElement" =>
        /\ InListOrder
        /\ Len(probes) <= retries * nSelectors
        /\ result = "false" =>
              /\ attempt = retries + 1
              /\ Len(probes) = retries * nSelectors
              /\ \A i \in 1..Len(probes) : probes[i][3] # "ok"
        /\ result = "true" =>
              /\ attempt \in 1..retries
              /\ Len(probes) = (attempt - 1) * nSelectors + used
              /\ \A i \in 1..Len(probes) : (probes[i][3] = "ok") = (i = Len(probes))

C19_Witness ==
    /\ helper = "clickElement"
    /\ result = "true"
    /\ retries = 3
    /\ nSelectors = 2
    /\ attempt = 2
    /\ Len(probes) = 3

\* C20: clickElement, typeText and elementExists end with a boolean and
\* never throw, whatever fails on the page; clickElement returns false once
\* its retries are used up.
C20_AbsenceNeverRaised ==
    helper \in {"clickElement", "typeText", "elementExists"} =>
        /\ result \in {"pending", "true", "false"}
        /\ result = "pending" => ENABLED UtilsNext
        /\ (helper = "clickElement" /\ attempt > retries /\ result # "pending")
              => result = "false"

C20_Witness ==
    /\ helper = "clickElement"
    /\ result = "false"
    /\ retries = 3
    /\ \E i \in 1..Len(probes) : probes[i][3] = "actionFailed"
    /\ \E i \in 1..Len(probes) : probes[i][3] = "notFound"

\* C21: a Utils.screenshot whose capture throws changes nothing but the
\* capture.  Over a sink on which every capture throws: nothing is captured;
\* a step that calls screenshot raises no error and makes no phase throw; and
\* run() still resolves whenever no critical phase failed and the browser
\* closed, as it does over a working sink.
C21_CaptureFailureHarmless ==
    /\ [](\A c \in captures : ~c[3])
    /\ [](pc = "done" /\ ~Fatal /\ error # "CloseError" => outcome = "resolved")
    /\ [][captures' \ captures # {} =>
            /\ error' = error
            /\ \A p \in Phases : ret'[p] = "threw" => ret[p] = "threw"]_vars

C21_Witness ==
    /\ pc = "done"
    /\ sink = "down"
    /\ siteName = "swiggy"
    /\ outcome = "resolved"
    /\ \E c \in captures : c[1] = "01_homepage" /\ ~c[3]
    /\ \E c \in captures : c[1] = "07_cart_page" /\ ~c[3]

\* C22 (as claimed): the process exits with 0 exactly when run() resolved,
\* and with 1 when there are fewer than two arguments, when the constructor
\* throws, or when run() rejects; and for a site that has no profile no
\* browser is ever launched.
C22_ExitCodes ==
    /\ exitCode = 0 <=> (pc = "exited" /\ outcome = "resolved")
    /\ (pc = "exited" /\ (~argsOk \/ siteName \notin Sites \/ outcome = "rejected"))
          => exitCode = 1
    /\ siteName \notin Sites => browser = "null"

\* C23 (as claimed): run() always terminates.  Until it has settled some
\* step of the program is ready to run, or a wait is still counting down,
\* or the browser still owes the event the program awaits.
C23_RunNeverStuck ==
    outcome = "running" /\ pc # "exited" =>
        ENABLED (Program \/ Tick \/ TargetCreated("product"))

\* C24 (as claimed): whenever addToCart() has returned, the 'targetcreated'
\* registration it made is gone (used up or removed).
C24_ListenerTornDown == ret["addToCart"] # "none" => listener # "pending"

\* C30 (as claimed): with hasCustomization false no customization control
\* (lens type, lens package, wizard control) is ever clicked.
C30_NoCustomizationWithoutFlag == ~hasCustomization => ~customized

\* The ladder of one iteration, in the order the loop body tries its steps.
Ladder == <<"continue", "final", "pick", "last">>

C26_PickOnlyUnselected ==
    \A i \in 1..Len(wiz.rungs) : wiz.rungs[i] # <<"pick", "repicked">>

\* C27: the loop runs at most StepBudget iterations, ends in the iteration in
\* which the final add control is clicked, and handleCustomization() always
\* returns.
C27_LoopBounded ==
    /\ [](wiz.step <= StepBudget)
    /\ [](pc \in {"hc_continue", "hc_final", "hc_pick", "hc_last"} => wiz.step < StepBudget)
    /\ []((Len(wiz.rungs) = 2 /\ wiz.rungs[2] = <<"final", "clicked">>)
            => pc \in {"hc_after", "hc_done"})
    /\ [](pc = "hc_done" => wiz.returned \in {"true", "false"})
    /\ <>(pc = "hc_done")

C27_Witness ==
    /\ pc = "hc_done"
    /\ wiz.step = StepBudget
    /\ ~wiz.completed
    /\ wiz.returned = "true"

\* C28 (as claimed): a budget exhausted without a click on the final add
\* control is followed by the direct attempt and is reported as a failure:
\* handleCustomization() does not report success.
C28_ExhaustionReported ==
    (pc = "hc_done" /\ wiz.step = StepBudget /\ ~wiz.completed) =>
        /\ wiz.finalAttempt # "none"
        /\ wiz.logged # "completed"
        /\ wiz.returned # "true"

\* C29 (as claimed): with no continue control and no click rejecting, a
\* dialog whose final add control is there at once is done in one iteration,
\* and one that shows it after n <= 3 option selections is done after
\* exactly n selecting iterations and one iteration that clicks it.
C29_WizardCompletes ==
    (/\ pc = "hc_done"
     /\ wiz.logged = "completed"
     /\ wiz.faults = 0
     /\ wiz.pages = 0
     /\ wiz.need <= 3
     /\ wiz.submitRule \in {"always", "whenComplete"}) =>
        /\ wiz.completed
        /\ wiz.picks = (IF wiz.submitRule = "always" THEN 0 ELSE wiz.need)
        /\ wiz.step = wiz.picks

\* Utils.clickElement gives every visibility wait `timeout / retries`.  In
\* units of that share the call's whole timeout is `retries`, and every
\* wait that timed out has used one share up.
WaitBudget == retries
WaitSpent == Cardinality({i \in 1..Len(probes) : probes[i][3] = "notFound"})

\* C31 (as claimed): the visibility waits of one clickElement call never
\* take more than the call's timeout in total.
C31_TimeoutPartitioned == helper = "clickElement" => WaitSpent <= WaitBudget

\* C32 (as claimed): called with an empty selector list, waitForSelector,
\* clickElement and typeText each raise an error.
C32_EmptyListRaises ==
    (helper \in {"waitForSelector", "clickElement", "typeText"}
       /\ nSelectors = 0 /\ result # "pending") => result = "threw"

\* The probes of a typeText call in which the text was typed.
TextTyped == {i \in 1..Len(probes) : probes[i][3] \in {"ok", "enterFailed"}}

\* C39 (as claimed): typeText types the text at most once across the
\* fallback list, also when the Enter press that follows fails; and Enter is
\* pressed only with pressEnter set.
C39_TypedAtMostOnce ==
    helper = "typeText" =>
        /\ Cardinality(TextTyped) <= 1
        /\ (\E i \in 1..Len(probes) : probes[i][3] = "enterFailed") => pressEnter

\* C34 (as claimed): search() returns true only when the search term was
\* submitted, and AddToCart is entered only after a submitted search.
C34_SearchTrueOnlyIfSubmitted ==
    /\ ret["search"] = "true" => typed
    /\ (pc \in {"atc_enter", "lk_subscribe", "sw_pre"}) => typed

\* C36 (as claimed): in the swiggy path of addToCart(), once the first
\* verification found the item added (addedOk), no further add click is
\* issued in that call.
C36_NoClickAfterConfirmed ==
    (siteName = "swiggy" /\ addedOk) => verifyClicks = 0

\* C37 (as claimed): in the lenskart branch of signin() the create-account
\* submit control is clicked at most once per call.
C37_SignupSubmittedAtMostOnce == signupSubmits <= 1

\* C38: with authMode 'signin' on lenskart, signin() never opens, fills or
\* submits the account-creation form (also when the Sign In click failed);
\* with authMode 'signup' the identifier is typed into the sign-in form only
\* after the 'already registered' pivot switched to it.
C38_AuthModeGating ==
    /\ (siteName = "lenskart" /\ authMode = "signin") =>
          /\ ~didOpenSignupForm
          /\ signupSubmits = 0
          /\ signupId = "none"
          /\ ~alreadyRegistered /\ pivots = 0
          /\ \A c \in captures : c[1] # "03_signup_form_lenskart"
    /\ (siteName = "lenskart" /\ authMode = "signup" /\ signinId # "none") =>
          (pivots > 0 /\ pivotSwitched)

\* C38 witness: authMode 'signin', the Sign In click failed, and control is
\* past the auto block, at `if (didOpenSignupForm)`.
C38_Witness ==
    /\ siteName = "lenskart" /\ authMode = "signin"
    /\ pc = "lkf_explicit" /\ ~signInClickable /\ signinId = "phone"

\* C35 (as claimed): the context the handoff installs as this.page is the
\* one the product click spawned; a context created by anything else, or a
\* target without a page, is never installed.
C35_AdoptsSpawnedContextOnly ==
    /\ page # "stray"
    /\ handoff => (firedBy = "product" /\ page = "product")

\* C33 (as claimed): a capture that has not completed does not hold the
\* automaton back: with the 01_homepage capture in flight the next
\* interaction step, the sign-in click, can be taken.
C33_CaptureNeverGates == pc = "init_capture" => ENABLED SigninOpen
====
